---------------------------- MODULE Spec2Model ----------------------------
(***************************************************************************)
(* Golden-pit / panic-wash pattern detection                               *)
(* (src/src/qym/trend_analysis/pattern_analyzer.py).                       *)
(*                                                                         *)
(* Prices and volumes are integers (one price unit is 1% of the flat       *)
(* level 100 of the generated series).  Every float of the program is an   *)
(* exact rational [n |-> numerator, d |-> denominator], kept in lowest     *)
(* terms with d > 0; d = 0 is the undefined value (pandas NaN), and every  *)
(* comparison with it is false, as in Python.  Row indices are 0-based as  *)
(* in the program: row i of a frame is rows[i + 1].  None is the null      *)
(* reference 0 for objects and dates, and -1 for row indices.              *)
(***************************************************************************)
EXTENDS Integers, Sequences, FiniteSets, TLC

VARIABLES df,      \* the caller's DataFrame: [isNone, rows]
          heap,    \* the PatternResult objects created so far, by reference
          origin,  \* per object: the boundary indices it was built from and the object as built
          calls    \* the calls made so far, each with what it returned

vars == <<df, heap, origin, calls>>

None == 0
NoIdx == -1

---------------------------------------------------------------------------
(* Thresholds of PatternAnalyzer *)
PRE_TREND_DAYS == 20
DIP_MIN_AMPLITUDE == 5
DIP_MAX_AMPLITUDE == 35
DIP_MIN_DAYS == 2
DIP_MAX_DAYS == 15
BOTTOM_MIN_DAYS == 3
BOTTOM_MAX_DAYS == 20
REBOUND_MIN_AMPLITUDE == 10
REBOUND_MIN_DAYS == 3
MIN_BARS == 60
SCAN_TAIL == 10
REBOUND_MAX_DAYS == 30
BASE_CONFIDENCE == 50
MAX_CONFIDENCE == 100

---------------------------------------------------------------------------
(* Exact rationals standing for the program's floats *)
Abs(x) == IF x < 0 THEN -x ELSE x
MinI(a, b) == IF a < b THEN a ELSE b
MaxI(a, b) == IF a > b THEN a ELSE b

RECURSIVE GCD(_, _)
GCD(a, b) == IF b = 0 THEN a ELSE GCD(b, a % b)

NaN == [n |-> 0, d |-> 0]
IsNaN(q) == q.d = 0

Frac(a, b) ==
    LET Reduced(g, s) == [n |-> s * (a \div g), d |-> s * (b \div g)]
    IN  IF b = 0 THEN NaN ELSE Reduced(GCD(Abs(a), Abs(b)), IF b < 0 THEN -1 ELSE 1)

FInt(k) == [n |-> k, d |-> 1]

FAdd(p, q) ==
    LET Sum(g) == Frac(p.n * (q.d \div g) + q.n * (p.d \div g), (p.d \div g) * q.d)
    IN  IF IsNaN(p) \/ IsNaN(q) THEN NaN ELSE Sum(GCD(p.d, q.d))

FNeg(p) == [n |-> -p.n, d |-> p.d]
FSub(p, q) == FAdd(p, FNeg(q))
FAbs(p) == [n |-> Abs(p.n), d |-> p.d]
FScale(p, a, b) == IF IsNaN(p) THEN NaN ELSE Frac(p.n * a, p.d * b)   \* p * a / b
FDiv(p, q) == IF IsNaN(p) \/ IsNaN(q) \/ q.n = 0 THEN NaN ELSE Frac(p.n * q.d, p.d * q.n)

\* a/b < c/d for b, d > 0, without forming the cross products
RECURSIVE LessQ(_, _, _, _)
LessQ(a, b, c, d) ==
    LET q1 == a \div b
        q2 == c \div d
        r1 == a % b
        r2 == c % d
    IN  IF q1 # q2 THEN q1 < q2
        ELSE IF r2 = 0 THEN FALSE
        ELSE IF r1 = 0 THEN TRUE
        ELSE LessQ(d, r2, b, r1)

FLt(p, q) == ~IsNaN(p) /\ ~IsNaN(q) /\ LessQ(p.n, p.d, q.n, q.d)
FGt(p, q) == FLt(q, p)
FLe(p, q) == ~IsNaN(p) /\ ~IsNaN(q) /\ ~LessQ(q.n, q.d, p.n, p.d)
FGe(p, q) == FLe(q, p)

\* Python's max(a, b) and min(a, b): the first argument unless the second beats it
PyMax(a, b) == IF FGt(b, a) THEN b ELSE a
PyMin(a, b) == IF FLt(b, a) THEN b ELSE a

\* (b - a) / a * 100
PctChange(a, b) == Frac((b - a) * 100, a)

---------------------------------------------------------------------------
(* Column access, 0-based as DataFrame.iloc *)
Len0(rows) == Len(rows)
Date(rows, i) == rows[i + 1].date
Open(rows, i) == rows[i + 1].open
High(rows, i) == rows[i + 1].high
Low(rows, i) == rows[i + 1].low
Close(rows, i) == rows[i + 1].close
Volume(rows, i) == rows[i + 1].volume

\* sums and extrema over the half-open slice [lo, hi) of a column
SumClose(rows, lo, hi) ==
    LET upto[i \in (lo - 1)..(hi - 1)] == IF i < lo THEN 0 ELSE upto[i - 1] + Close(rows, i)
    IN  IF lo >= hi THEN 0 ELSE upto[hi - 1]

SumVolume(rows, lo, hi) ==
    LET upto[i \in (lo - 1)..(hi - 1)] == IF i < lo THEN 0 ELSE upto[i - 1] + Volume(rows, i)
    IN  IF lo >= hi THEN 0 ELSE upto[hi - 1]

MaxHigh(rows, lo, hi) ==
    LET upto[i \in lo..MaxI(lo, hi - 1)] ==
            IF i = lo THEN High(rows, lo) ELSE MaxI(upto[i - 1], High(rows, i))
    IN  upto[MaxI(lo, hi - 1)]

MinLow(rows, lo, hi) ==
    LET upto[i \in lo..MaxI(lo, hi - 1)] ==
            IF i = lo THEN Low(rows, lo) ELSE MinI(upto[i - 1], Low(rows, i))
    IN  upto[MaxI(lo, hi - 1)]

MeanVolume(rows, lo, hi) == Frac(SumVolume(rows, lo, hi), hi - lo)

---------------------------------------------------------------------------
(* detect_golden_pit: df.sort_values('date').reset_index(drop=True) *)
\* the number of rows that sort before row r (ties keep their order)
RankByDate(rows, r) ==
    Cardinality({j \in 1..Len(rows) :
                    \/ rows[j].date < rows[r].date
                    \/ (rows[j].date = rows[r].date /\ j < r)})

\* the rows placed by rank
PlacedByRank(rows, rank) ==
    [i \in 1..Len(rows) |-> rows[CHOOSE r \in 1..Len(rows) : rank[r] = i - 1]]

sort_values(rows) ==
    IF \A j \in 1..(Len(rows) - 1) : rows[j].date <= rows[j + 1].date
    THEN rows
    ELSE PlacedByRank(rows, [r \in 1..Len(rows) |-> RankByDate(rows, r)])

---------------------------------------------------------------------------
(* _calculate_indicators / _calculate_rsi: the columns the detection reads *)
RollingMeanClose(rows, i, w) ==
    IF i < w - 1 THEN NaN ELSE Frac(SumClose(rows, i - w + 1, i + 1), w)

MA5(rows, i) == RollingMeanClose(rows, i, 5)
MA10(rows, i) == RollingMeanClose(rows, i, 10)
MA20(rows, i) == RollingMeanClose(rows, i, 20)

VOL_MA5(rows, i) == IF i < 4 THEN NaN ELSE Frac(SumVolume(rows, i - 4, i + 1), 5)

\* sums of the gains and of the losses of close over rows lo..hi (row 0 has no delta: 0)
SumGain(rows, lo, hi) ==
    LET upto[i \in (lo - 1)..hi] ==
            IF i < lo THEN 0
            ELSE upto[i - 1] + (IF i > 0 /\ Close(rows, i) > Close(rows, i - 1)
                                THEN Close(rows, i) - Close(rows, i - 1) ELSE 0)
    IN  IF lo > hi THEN 0 ELSE upto[hi]

SumLoss(rows, lo, hi) ==
    LET upto[i \in (lo - 1)..hi] ==
            IF i < lo THEN 0
            ELSE upto[i - 1] + (IF i > 0 /\ Close(rows, i) < Close(rows, i - 1)
                                THEN Close(rows, i - 1) - Close(rows, i) ELSE 0)
    IN  IF lo > hi THEN 0 ELSE upto[hi]

RSI_PERIOD == 14

\* rs = avg_gain / avg_loss; rsi = 100 - 100 / (1 + rs); NaN (short window, 0/0) filled with 50
RSI(rows, i) ==
    LET Index(g, l) ==
            IF l = 0 THEN (IF g > 0 THEN FInt(100) ELSE FInt(50)) ELSE Frac(100 * g, g + l)
    IN  IF i < RSI_PERIOD - 1 THEN FInt(50)
        ELSE Index(SumGain(rows, i - RSI_PERIOD + 1, i), SumLoss(rows, i - RSI_PERIOD + 1, i))

---------------------------------------------------------------------------
(* _is_dip_start *)
\* the sum of k * close[base + k] over k = 0 .. PRE_TREND_DAYS - 1
SumXY(rows, base) ==
    LET upto[k \in 0..(PRE_TREND_DAYS - 1)] ==
            k * Close(rows, base + k) + (IF k = 0 THEN 0 ELSE upto[k - 1])
    IN  upto[PRE_TREND_DAYS - 1]

\* prices and volumes are not negative: a negative cell of the frame stands for NaN
IsNaNCell(x) == x < 0

\* a NaN among pre_prices = df['close'].iloc[idx - PRE_TREND_DAYS : idx]
WindowHasNaN(rows, idx) ==
    \E k \in (idx - PRE_TREND_DAYS)..(idx - 1) : IsNaNCell(Close(rows, k))

\* np.polyfit(x, pre_prices, 1)[0] / np.mean(pre_prices), x = 0 .. m-1; with a NaN among
\* pre_prices (and a fit that returns) np.mean is NaN, avg_price > 0 is False and the value is 0
TrendSlopePct(rows, idx) ==
    LET m   == PRE_TREND_DAYS
        sx  == (m * (m - 1)) \div 2
        sxx == ((m - 1) * m * (2 * m - 1)) \div 6
        Slope(sy, sxy) == Frac(m * sxy - sx * sy, m * sxx - sx * sx)
        Relative(sy, sxy) == IF sy > 0 THEN FDiv(Slope(sy, sxy), Frac(sy, m)) ELSE FInt(0)
    IN  IF WindowHasNaN(rows, idx) THEN FInt(0)
        ELSE Relative(SumClose(rows, idx - m, idx), SumXY(rows, idx - m))

BodySizePct(rows, i) == Frac(Abs(Close(rows, i) - Open(rows, i)) * 100, Open(rows, i))
IsBullish(rows, i) == Close(rows, i) > Open(rows, i)

\* a variant without the test of the trend before the bar
is_dip_start_any_trend(rows, idx) ==
    /\ idx >= PRE_TREND_DAYS
    /\ ~FGt(PctChange(Close(rows, idx - 1), Close(rows, idx)), Frac(-15, 10))
    /\ ~(IsBullish(rows, idx) /\ FGt(BodySizePct(rows, idx), FInt(3)))

\* The three tests have no effects, so their conjunction is written with the cheapest first;
\* the program tests the trend slope first.
is_dip_start(rows, idx) ==
    /\ idx >= PRE_TREND_DAYS
    /\ ~FGt(PctChange(Close(rows, idx - 1), Close(rows, idx)), Frac(-15, 10))
    /\ ~(IsBullish(rows, idx) /\ FGt(BodySizePct(rows, idx), FInt(3)))
    /\ ~FLt(TrendSlopePct(rows, idx), Frac(-5, 1000))

---------------------------------------------------------------------------
(* _find_dip_end *)
BigBullish(rows, i) == FGt(Frac((Close(rows, i) - Open(rows, i)) * 100, Open(rows, i)), FInt(3))

ReboundSignal(rows, i) == (IsBullish(rows, i) /\ IsBullish(rows, i - 1)) \/ BigBullish(rows, i)

\* a reversal at any depth
AnyDecline(rows, start_idx, i) == TRUE

\* current_amplitude < -DIP_MIN_AMPLITUDE, from the close before the starting bar
DeclineExceedsMin(rows, start_idx, i) ==
    FLt(PctChange(Close(rows, start_idx - 1), Close(rows, i)), FInt(-DIP_MIN_AMPLITUDE))

\* after the loop: the lowest close after the starting bar, whatever its depth
DipEndAtLowest(rows, start_idx, min_price, min_idx) ==
    IF min_idx > start_idx THEN min_idx ELSE NoIdx

\* after the loop: the lowest close of the span, if it lies deep enough
DipEndAtSpanEnd(rows, start_idx, min_price, min_idx) ==
    IF /\ min_idx > start_idx
       /\ FGe(FAbs(PctChange(Close(rows, start_idx - 1), min_price)), FInt(DIP_MIN_AMPLITUDE))
    THEN min_idx
    ELSE NoIdx

\* for i in range(start_idx + 1, min(start_idx + DIP_MAX_DAYS + 1, n)), carrying the lowest
\* close seen and its index
DipEndLoop(rows, start_idx, first, first_price, first_idx) ==
    LET loop[i \in Nat, min_price \in Int, min_idx \in Int] ==
            IF i >= MinI(start_idx + DIP_MAX_DAYS + 1, Len0(rows))
            THEN DipEndAtSpanEnd(rows, start_idx, min_price, min_idx)
            ELSE IF ReboundSignal(rows, i) /\ DeclineExceedsMin(rows, start_idx, i)
            THEN i
            ELSE IF Close(rows, i) < min_price
            THEN loop[i + 1, Close(rows, i), i]
            ELSE loop[i + 1, min_price, min_idx]
    IN  loop[first, first_price, first_idx]

find_dip_end(rows, start_idx) ==
    DipEndLoop(rows, start_idx, start_idx + 1, Close(rows, start_idx), start_idx)

---------------------------------------------------------------------------
(* _find_bottom_end *)
\* CONSOLIDATION_RANGE = 0.05, compared as CONSOLIDATION_RANGE * 100
CONSOLIDATION_RANGE_PCT == 5

RangeWidened(bottom_low, bottom_high) ==
    /\ bottom_high > 0
    /\ FGt(Frac((bottom_high - bottom_low) * 100, bottom_low), FInt(CONSOLIDATION_RANGE_PCT))

\* close > open and volume >= VOL_MA5 * 1.2
VolumeBullishOrEqual(rows, i) ==
    /\ IsBullish(rows, i)
    /\ FGe(FInt(Volume(rows, i)), FScale(VOL_MA5(rows, i), 12, 10))

\* close > open and volume > VOL_MA5 * 1.2
VolumeBullish(rows, i) ==
    /\ IsBullish(rows, i)
    /\ FGt(FInt(Volume(rows, i)), FScale(VOL_MA5(rows, i), 12, 10))

\* a variant that compares the close with the envelope of the bars before bar i
BreaksEarlierEnvelope(rows, start_idx, i, bottom_high) ==
    /\ i > start_idx + BOTTOM_MIN_DAYS
    /\ FGt(FInt(Close(rows, i)), Frac(MaxHigh(rows, start_idx, i) * 102, 100))

\* a variant that looks at the close from bar start_idx + BOTTOM_MIN_DAYS on
BreaksEnvelopeFromMinDays(rows, start_idx, i, bottom_high) ==
    /\ i >= start_idx + BOTTOM_MIN_DAYS
    /\ FGt(FInt(Close(rows, i)), Frac(bottom_high * 102, 100))

\* close > bottom_high * 1.02, looked at only when i > start_idx + BOTTOM_MIN_DAYS
BreaksEnvelope(rows, start_idx, i, bottom_high) ==
    /\ i > start_idx + BOTTOM_MIN_DAYS
    /\ FGt(FInt(Close(rows, i)), Frac(bottom_high * 102, 100))

\* a variant that asks for more than BOTTOM_MIN_DAYS bars after start_idx
BottomEndAtSpanEndIfMoreFollow(rows, start_idx) ==
    IF start_idx + BOTTOM_MIN_DAYS < Len0(rows) - 1
    THEN MinI(start_idx + BOTTOM_MAX_DAYS, Len0(rows) - 1)
    ELSE NoIdx

BottomEndAtSpanEnd(rows, start_idx) ==
    IF start_idx + BOTTOM_MIN_DAYS < Len0(rows)
    THEN MinI(start_idx + BOTTOM_MAX_DAYS, Len0(rows) - 1)
    ELSE NoIdx

\* for i in range(start_idx + 1, min(start_idx + BOTTOM_MAX_DAYS + 1, n)), carrying the
\* envelope of the base
BottomEndLoop(rows, start_idx, first, first_low, first_high) ==
    LET loop[i \in Nat, bottom_low \in Int, bottom_high \in Int] ==
            IF i >= MinI(start_idx + BOTTOM_MAX_DAYS + 1, Len0(rows))
            THEN BottomEndAtSpanEnd(rows, start_idx)
            ELSE IF /\ RangeWidened(MinI(bottom_low, Low(rows, i)), MaxI(bottom_high, High(rows, i)))
                    /\ VolumeBullish(rows, i)
            THEN i
            ELSE IF BreaksEnvelope(rows, start_idx, i, MaxI(bottom_high, High(rows, i))) THEN i
            ELSE loop[i + 1, MinI(bottom_low, Low(rows, i)), MaxI(bottom_high, High(rows, i))]
    IN  loop[first, first_low, first_high]

find_bottom_end(rows, start_idx) ==
    IF start_idx >= Len0(rows) THEN NoIdx
    ELSE BottomEndLoop(rows, start_idx, start_idx + 1, Low(rows, start_idx), High(rows, start_idx))

---------------------------------------------------------------------------
(* _find_rebound_end *)
PULLBACK_LOOKAHEAD == 5

\* a variant that looks at the five bars i + 1 .. i + 5
PullbackScanFiveBars(rows, i, first) ==
    LET scan[j \in Nat] ==
            IF j >= MinI(i + PULLBACK_LOOKAHEAD + 1, Len0(rows)) THEN i
            ELSE IF FLt(FInt(Close(rows, j)), Frac(Close(rows, j - 1) * 98, 100)) THEN j - 1
            ELSE scan[j + 1]
    IN  scan[first]

\* for j in range(i + 1, min(i + 5, n)): close[j] < close[j-1] * 0.98 -> j - 1
PullbackScan(rows, i, first) ==
    LET scan[j \in Nat] ==
            IF j >= MinI(i + PULLBACK_LOOKAHEAD, Len0(rows)) THEN i
            ELSE IF FLt(FInt(Close(rows, j)), Frac(Close(rows, j - 1) * 98, 100)) THEN j - 1
            ELSE scan[j + 1]
    IN  scan[first]

\* for i in range(start_idx, min(start_idx + 30, n)), carrying the highest high seen
ReboundEndLoop(rows, start_idx, first, first_high, rebound_start_price) ==
    LET loop[i \in Nat, rebound_high \in Int] ==
            IF i >= MinI(start_idx + REBOUND_MAX_DAYS, Len0(rows)) THEN NoIdx
            ELSE IF /\ FGe(PctChange(rebound_start_price, MaxI(rebound_high, High(rows, i))),
                           FInt(REBOUND_MIN_AMPLITUDE))
                    /\ i >= start_idx + REBOUND_MIN_DAYS - 1
            THEN (IF i < Len0(rows) - 1 THEN PullbackScan(rows, i, i + 1) ELSE i)
            ELSE loop[i + 1, MaxI(rebound_high, High(rows, i))]
    IN  loop[first, first_high]

find_rebound_end(rows, start_idx) ==
    IF start_idx >= Len0(rows) THEN NoIdx
    ELSE ReboundEndLoop(rows, start_idx, start_idx, High(rows, start_idx),
                        IF start_idx > 0 THEN Close(rows, start_idx - 1) ELSE Close(rows, start_idx))

---------------------------------------------------------------------------
(* _validate_pattern *)
OrderOk(dip_start, dip_end, bottom_end, rebound_end) ==
    dip_start < dip_end /\ dip_end <= bottom_end /\ bottom_end <= rebound_end

\* the amplitude test without its upper limit
DipAmplitudeAtLeastMin(rows, dip_start, dip_end) ==
    ~FLt(FAbs(PctChange(Close(rows, dip_start - 1), Close(rows, dip_end))), FInt(DIP_MIN_AMPLITUDE))

DipAmplitudeOk(rows, dip_start, dip_end) ==
    LET Within(a) == ~FLt(a, FInt(DIP_MIN_AMPLITUDE)) /\ ~FGt(a, FInt(DIP_MAX_AMPLITUDE))
    IN  Within(FAbs(PctChange(Close(rows, dip_start - 1), Close(rows, dip_end))))

DipDurationOk(dip_start, dip_end) ==
    LET dip_duration == dip_end - dip_start + 1
    IN  ~(dip_duration < DIP_MIN_DAYS \/ dip_duration > DIP_MAX_DAYS)

\* a variant without the minimum
BottomDurationUpToMax(dip_end, bottom_end) ==
    LET bottom_duration == bottom_end - dip_end
    IN  ~(bottom_duration > BOTTOM_MAX_DAYS)

\* a variant that measures the base from its first bar, bottom_end - bottom_start
BottomDurationFromBaseStart(dip_end, bottom_end) ==
    LET bottom_duration == bottom_end - (dip_end + 1)
    IN  ~(bottom_duration < BOTTOM_MIN_DAYS \/ bottom_duration > BOTTOM_MAX_DAYS)

BottomDurationOk(dip_end, bottom_end) ==
    LET bottom_duration == bottom_end - dip_end
    IN  ~(bottom_duration < BOTTOM_MIN_DAYS \/ bottom_duration > BOTTOM_MAX_DAYS)

ReboundAmplitudeOk(rows, bottom_end, rebound_end) ==
    rebound_end > bottom_end =>
        ~FLt(PctChange(Close(rows, bottom_end), Close(rows, rebound_end)),
             FInt(REBOUND_MIN_AMPLITUDE))

validate_pattern(rows, dip_start, dip_end, bottom_end, rebound_end) ==
    /\ OrderOk(dip_start, dip_end, bottom_end, rebound_end)
    /\ DipAmplitudeOk(rows, dip_start, dip_end)
    /\ DipDurationOk(dip_start, dip_end)
    /\ BottomDurationOk(dip_end, bottom_end)
    /\ ReboundAmplitudeOk(rows, bottom_end, rebound_end)

---------------------------------------------------------------------------
(* _determine_stage *)
\* a variant in which the base is over on its last bar
determine_stage_after_base(rows, current_idx, dip_start, dip_end, bottom_end, rebound_end) ==
    IF current_idx < dip_start THEN "BEFORE_DIP"
    ELSE IF current_idx <= dip_end THEN "DIPPING"
    ELSE IF current_idx < bottom_end THEN "BOTTOMING"
    ELSE IF current_idx <= rebound_end THEN "REBOUNDING"
    ELSE IF MaxHigh(rows, rebound_end, current_idx + 1)
              > MaxHigh(rows, dip_start - PRE_TREND_DAYS, dip_start)
         THEN "BREAKOUT"
         ELSE "REBOUNDING"

determine_stage(rows, current_idx, dip_start, dip_end, bottom_end, rebound_end) ==
    IF current_idx < dip_start THEN "BEFORE_DIP"
    ELSE IF current_idx <= dip_end THEN "DIPPING"
    ELSE IF current_idx <= bottom_end THEN "BOTTOMING"
    ELSE IF current_idx <= rebound_end THEN "REBOUNDING"
    ELSE IF MaxHigh(rows, rebound_end, current_idx + 1)
              > MaxHigh(rows, dip_start - PRE_TREND_DAYS, dip_start)
         THEN "BREAKOUT"
         ELSE "REBOUNDING"

---------------------------------------------------------------------------
(* _calculate_volume_score *)
\* a variant with 5 points for a decline on high or on low volume and none otherwise
DipVolumePointsOnlyExtremes(rows, dip_start, dip_end) ==
    LET Points(dip_vol_ratio) ==
            IF FGt(dip_vol_ratio, Frac(13, 10)) \/ FLt(dip_vol_ratio, Frac(7, 10)) THEN 5 ELSE 0
        Compared(dip_vol_avg, pre_dip_vol_avg) ==
            IF ~FGt(pre_dip_vol_avg, FInt(0)) THEN 0
            ELSE Points(FDiv(dip_vol_avg, pre_dip_vol_avg))
        From(dip_vol_avg) ==
            Compared(dip_vol_avg,
                     IF dip_start >= 10 THEN MeanVolume(rows, dip_start - 10, dip_start)
                     ELSE dip_vol_avg)
    IN  From(MeanVolume(rows, dip_start, dip_end + 1))

DipVolumePoints(rows, dip_start, dip_end) ==
    LET Points(dip_vol_ratio) ==
            IF FGt(dip_vol_ratio, Frac(13, 10)) THEN 5
            ELSE IF FLt(dip_vol_ratio, Frac(7, 10)) THEN 3
            ELSE 2
        Compared(dip_vol_avg, pre_dip_vol_avg) ==
            IF ~FGt(pre_dip_vol_avg, FInt(0)) THEN 0
            ELSE Points(FDiv(dip_vol_avg, pre_dip_vol_avg))
        From(dip_vol_avg) ==
            Compared(dip_vol_avg,
                     IF dip_start >= 10 THEN MeanVolume(rows, dip_start - 10, dip_start)
                     ELSE dip_vol_avg)
    IN  From(MeanVolume(rows, dip_start, dip_end + 1))

BottomVolumePoints(rows, dip_start, dip_end, bottom_end) ==
    LET dip_vol_avg == MeanVolume(rows, dip_start, dip_end + 1)
        bottom_vol_avg == MeanVolume(rows, dip_end + 1, bottom_end + 1)
    IN  IF /\ bottom_end > dip_end
           /\ FGt(dip_vol_avg, FInt(0))
           /\ FLt(FDiv(bottom_vol_avg, dip_vol_avg), Frac(8, 10))
        THEN 5 ELSE 0

ReboundVolumePoints(rows, dip_end, bottom_end, rebound_end) ==
    LET bottom_vol_avg == MeanVolume(rows, dip_end + 1, bottom_end + 1)
        rebound_vol_avg == MeanVolume(rows, bottom_end + 1, rebound_end + 1)
    IN  IF /\ rebound_end > bottom_end
           /\ FGt(bottom_vol_avg, FInt(0))
           /\ FGt(FDiv(rebound_vol_avg, bottom_vol_avg), Frac(12, 10))
        THEN 5 ELSE 0

calculate_volume_score(rows, dip_start, dip_end, bottom_end, rebound_end) ==
    MinI(10, DipVolumePoints(rows, dip_start, dip_end)
             + BottomVolumePoints(rows, dip_start, dip_end, bottom_end)
             + ReboundVolumePoints(rows, dip_end, bottom_end, rebound_end))

(* _calculate_technical_score *)
calculate_technical_score(rows, dip_start, dip_end, bottom_end, rebound_end) ==
    MinI(10, (IF FLt(RSI(rows, dip_end), FInt(30)) THEN 3 ELSE 0)
             + (IF rebound_end > bottom_end /\ FGt(RSI(rows, rebound_end), FInt(40)) THEN 3 ELSE 0)
             + (IF rebound_end > bottom_end /\ FGt(MA5(rows, rebound_end), MA10(rows, rebound_end))
                THEN 2 ELSE 0))

---------------------------------------------------------------------------
(* _calculate_confidence *)
\* max(0, budget - |value - (lo + hi) / 2| * weight)
ClosenessScore(value, lo, hi, budget, weight) ==
    PyMax(FInt(0), FSub(FInt(budget), FScale(FAbs(FSub(value, Frac(lo + hi, 2))), weight, 1)))

ReboundScore(bottom_end, rebound_end, rebound_amplitude) ==
    LET rebound_duration == rebound_end - bottom_end
        rebound_amp_score == PyMin(FInt(10), FScale(rebound_amplitude, 1, 2))
        rebound_dur_score ==
            PyMin(FInt(10), FSub(FInt(10), Frac(rebound_duration - REBOUND_MIN_DAYS, 2)))
    IN  IF rebound_end > bottom_end /\ FGt(rebound_amplitude, FInt(0))
        THEN FAdd(rebound_amp_score,
                  IF rebound_duration >= REBOUND_MIN_DAYS THEN rebound_dur_score ELSE FInt(0))
        ELSE FInt(0)

\* the sum before the final clamp
RawConfidence(rows, dip_start, dip_end, bottom_end, rebound_end, dip_amplitude, rebound_amplitude) ==
    LET duration_score == ClosenessScore(FInt(dip_end - dip_start + 1), DIP_MIN_DAYS, DIP_MAX_DAYS, 15, 2)
        amplitude_score == ClosenessScore(FAbs(dip_amplitude), DIP_MIN_AMPLITUDE, DIP_MAX_AMPLITUDE, 15, 2)
        bottom_score == ClosenessScore(FInt(bottom_end - dip_end), BOTTOM_MIN_DAYS, BOTTOM_MAX_DAYS, 20, 3)
    IN  FAdd(FAdd(FAdd(FAdd(FAdd(FAdd(FInt(BASE_CONFIDENCE), duration_score), amplitude_score),
                            bottom_score),
                       ReboundScore(bottom_end, rebound_end, rebound_amplitude)),
                  FInt(calculate_volume_score(rows, dip_start, dip_end, bottom_end, rebound_end))),
             FInt(calculate_technical_score(rows, dip_start, dip_end, bottom_end, rebound_end)))

\* the score returned as accumulated, without line 633
UnclampedConfidence(c) == c

\* min(100, max(0, confidence))
ClampConfidence(c) == PyMin(FInt(MAX_CONFIDENCE), PyMax(FInt(0), c))

calculate_confidence(rows, dip_start, dip_end, bottom_end, rebound_end, dip_amplitude, rebound_amplitude) ==
    ClampConfidence(RawConfidence(rows, dip_start, dip_end, bottom_end, rebound_end,
                                  dip_amplitude, rebound_amplitude))

---------------------------------------------------------------------------
(* _check_buy_signal: <<buy_signal, buy_reason>> *)
VOLUME_SHRINK_RATIO == Frac(7, 10)
VOLUME_EXPAND_RATIO == Frac(15, 10)
BUY_BOTTOM == "bottom: shrinking volume, stabilising"
BUY_REBOUND == "early rebound: rising on expanding volume"
BUY_NONE == "no clear buy point yet"

\* volume / VOL_MA5 if VOL_MA5 > 0 else 1
CurrentVolRatio(rows, i) ==
    LET Ratio(vol_ma5) ==
            IF FGt(vol_ma5, FInt(0)) THEN FDiv(FInt(Volume(rows, i)), vol_ma5) ELSE FInt(1)
    IN  Ratio(VOL_MA5(rows, i))

\* a rebound day of any age
AnyReboundDay(current_idx, bottom_end) == TRUE

\* if current_idx - bottom_end <= 5
EarlyRebound(current_idx, bottom_end) == current_idx - bottom_end <= 5

check_buy_signal(rows, current_idx, dip_start, dip_end, bottom_end, rebound_end) ==
    LET Signal(current_stage) ==
            IF /\ current_stage = "BOTTOMING"
               /\ FLt(CurrentVolRatio(rows, current_idx), VOLUME_SHRINK_RATIO)
               /\ FLt(BodySizePct(rows, current_idx), FInt(2))
            THEN <<TRUE, BUY_BOTTOM>>
            ELSE IF /\ current_stage = "REBOUNDING"
                    /\ EarlyRebound(current_idx, bottom_end)
                    /\ IsBullish(rows, current_idx)
                    /\ FGt(CurrentVolRatio(rows, current_idx), VOLUME_EXPAND_RATIO)
            THEN <<TRUE, BUY_REBOUND>>
            ELSE <<FALSE, BUY_NONE>>
    IN  Signal(determine_stage(rows, current_idx, dip_start, dip_end, bottom_end, rebound_end))

(* _find_breakout_date *)
\* for i in range(rebound_end + 1, n)
BreakoutScan(rows, first, pre_high) ==
    LET scan[i \in Nat] ==
            IF i >= Len0(rows) THEN None
            ELSE IF High(rows, i) > pre_high THEN Date(rows, i)
            ELSE scan[i + 1]
    IN  scan[first]

find_breakout_date(rows, rebound_end, pre_high) == BreakoutScan(rows, rebound_end + 1, pre_high)

(* _calculate_volume_ratio *)
calculate_volume_ratio(rows, dip_start, dip_end, rebound_start, rebound_end) ==
    LET Ratio(dip_vol_avg) ==
            IF rebound_end >= rebound_start /\ FGt(dip_vol_avg, FInt(0))
            THEN FDiv(MeanVolume(rows, rebound_start, rebound_end + 1), dip_vol_avg)
            ELSE FInt(1)
    IN  Ratio(MeanVolume(rows, dip_start, dip_end + 1))

(* _calculate_risk_level *)
ClampRisk(risk) == MaxI(1, MinI(5, risk))

calculate_risk_level(rows, current_idx, dip_amplitude, rebound_amplitude) ==
    LET Level(current_price, ma20) ==
            ClampRisk(3 + (IF FGt(FAbs(dip_amplitude), FInt(25)) THEN 1 ELSE 0)
                        - (IF FGt(rebound_amplitude, FInt(30)) THEN 1 ELSE 0)
                        + (IF FLt(current_price, FScale(ma20, 9, 10)) THEN 1
                           ELSE IF FGt(current_price, ma20) THEN -1 ELSE 0))
    IN  Level(FInt(Close(rows, current_idx)), MA20(rows, current_idx))

---------------------------------------------------------------------------
(* _identify_pattern *)
\* what the scan keeps of a bar: whether it was handed to _identify_pattern, the decline end and
\* the base end found for it, what _find_rebound_end returned for it (NoIdx: none, or not
\* searched), and whether a result was built
NotFound ==
    [found |-> FALSE, handed |-> FALSE, dip_end |-> NoIdx, bottom_end |-> NoIdx, rebound_found |-> NoIdx]

\* lines 335, 341: return None
Discarded(dip_end_idx, bottom_end_idx) ==
    [found |-> FALSE, handed |-> TRUE, dip_end |-> dip_end_idx, bottom_end |-> bottom_end_idx,
     rebound_found |-> NoIdx]

\* line 369: return None
Rejected(dip_end_idx, bottom_end_idx, rebound_found_idx) ==
    [found |-> FALSE, handed |-> TRUE, dip_end |-> dip_end_idx, bottom_end |-> bottom_end_idx,
     rebound_found |-> rebound_found_idx]

\* lines 346-348: the rebound end found, or the last bar when the search found none
OrLastBar(rows, rebound_found_idx) ==
    IF rebound_found_idx = NoIdx \/ rebound_found_idx >= Len0(rows) THEN Len0(rows) - 1
    ELSE rebound_found_idx

\* lines 359-365: the reported rebound amplitude
ReportedReboundAmplitude(rows, rebound_start_idx, rebound_end_idx) ==
    IF rebound_end_idx > rebound_start_idx
    THEN PctChange(Close(rows, rebound_start_idx - 1), Close(rows, rebound_end_idx))
    ELSE FInt(0)

\* every located candidate accepted
AcceptsAll(rows, dip_start, dip_end, bottom_end, rebound_end) == TRUE

\* lines 367-369: the candidate is dropped unless _validate_pattern accepts it
PassesValidation(rows, dip_start, dip_end, bottom_end, rebound_end) ==
    validate_pattern(rows, dip_start, dip_end, bottom_end, rebound_end)

\* lines 371-411: the PatternResult of accepted boundaries
PatternResult(rows, code, dip_start_idx, dip_end_idx, bottom_end_idx, rebound_end_idx) ==
    LET n == Len0(rows)
        bottom_start_idx == dip_end_idx + 1
        rebound_start_idx == bottom_end_idx + 1
        current_idx == n - 1
        Fields(pre_high, dip_low, dip_amplitude, rebound_amplitude, buy) ==
            [code |-> code,
             pattern_type |-> "GOLDEN_PIT",
             confidence |-> calculate_confidence(rows, dip_start_idx, dip_end_idx, bottom_end_idx,
                                                 rebound_end_idx, dip_amplitude, rebound_amplitude),
             start_date |-> Date(rows, dip_start_idx - PRE_TREND_DAYS),
             dip_start_date |-> Date(rows, dip_start_idx),
             bottom_start_date |-> Date(rows, bottom_start_idx),
             rebound_start_date |-> IF rebound_start_idx < n THEN Date(rows, rebound_start_idx) ELSE None,
             breakout_date |-> find_breakout_date(rows, rebound_end_idx, pre_high),
             pre_high |-> pre_high,
             dip_low |-> dip_low,
             rebound_high |-> IF rebound_end_idx >= rebound_start_idx
                              THEN MaxHigh(rows, rebound_start_idx, rebound_end_idx + 1) ELSE dip_low,
             current_stage |-> determine_stage(rows, current_idx, dip_start_idx, dip_end_idx,
                                               bottom_end_idx, rebound_end_idx),
             dip_duration |-> dip_end_idx - dip_start_idx + 1,
             dip_amplitude |-> FAbs(dip_amplitude),
             rebound_duration |-> IF rebound_end_idx >= rebound_start_idx
                                  THEN rebound_end_idx - rebound_start_idx + 1 ELSE 0,
             rebound_amplitude |-> rebound_amplitude,
             volume_ratio |-> calculate_volume_ratio(rows, dip_start_idx, dip_end_idx,
                                                     rebound_start_idx, rebound_end_idx),
             buy_signal |-> buy[1],
             buy_reason |-> buy[2],
             risk_level |-> calculate_risk_level(rows, current_idx, dip_amplitude, rebound_amplitude)]
    IN  Fields(MaxHigh(rows, dip_start_idx - PRE_TREND_DAYS, dip_start_idx),
               MinLow(rows, dip_start_idx, dip_end_idx + 1),
               PctChange(Close(rows, dip_start_idx - 1), Close(rows, dip_end_idx)),
               ReportedReboundAmplitude(rows, rebound_start_idx, rebound_end_idx),
               check_buy_signal(rows, current_idx, dip_start_idx, dip_end_idx,
                                bottom_end_idx, rebound_end_idx))

\* a variant that keeps a candidate whose decline search found no low after the starting bar,
\* as a one-bar decline, and hands the boundaries to the constructor without _validate_pattern
identify_pattern_unvalidated(rows, code, dip_start_idx) ==
    LET n == Len0(rows)
        Built(dip_end_idx, bottom_end_idx, rebound_found_idx) ==
            [found |-> TRUE, handed |-> TRUE, dip_end |-> dip_end_idx, bottom_end |-> bottom_end_idx,
             rebound_found |-> rebound_found_idx,
             obj |-> PatternResult(rows, code, dip_start_idx, dip_end_idx, bottom_end_idx,
                                   OrLastBar(rows, rebound_found_idx)),
             from |-> [dip_start |-> dip_start_idx, dip_end |-> dip_end_idx,
                       bottom_end |-> bottom_end_idx,
                       rebound_end |-> OrLastBar(rows, rebound_found_idx), n |-> n]]
        AfterBottom(dip_end_idx, bottom_end_idx) ==
            IF bottom_end_idx = NoIdx \/ bottom_end_idx >= n
            THEN Discarded(dip_end_idx, bottom_end_idx)
            ELSE Built(dip_end_idx, bottom_end_idx, find_rebound_end(rows, bottom_end_idx + 1))
        AfterDip(dip_end_idx) ==
            IF dip_end_idx >= n THEN Discarded(dip_end_idx, NoIdx)
            ELSE AfterBottom(dip_end_idx, find_bottom_end(rows, dip_end_idx + 1))
        OrStart(found_idx) == IF found_idx = NoIdx THEN dip_start_idx ELSE found_idx
    IN  AfterDip(OrStart(find_dip_end(rows, dip_start_idx)))

identify_pattern(rows, code, dip_start_idx) ==
    LET n == Len0(rows)
        Built(dip_end_idx, bottom_end_idx, rebound_found_idx) ==
            IF ~PassesValidation(rows, dip_start_idx, dip_end_idx, bottom_end_idx,
                                 OrLastBar(rows, rebound_found_idx))
            THEN Rejected(dip_end_idx, bottom_end_idx, rebound_found_idx)
            ELSE [found |-> TRUE, handed |-> TRUE,
                  dip_end |-> dip_end_idx, bottom_end |-> bottom_end_idx,
                  rebound_found |-> rebound_found_idx,
                  obj |-> PatternResult(rows, code, dip_start_idx, dip_end_idx, bottom_end_idx,
                                        OrLastBar(rows, rebound_found_idx)),
                  from |-> [dip_start |-> dip_start_idx, dip_end |-> dip_end_idx,
                            bottom_end |-> bottom_end_idx,
                            rebound_end |-> OrLastBar(rows, rebound_found_idx), n |-> n]]
        AfterBottom(dip_end_idx, bottom_end_idx) ==
            IF bottom_end_idx = NoIdx \/ bottom_end_idx >= n
            THEN Discarded(dip_end_idx, bottom_end_idx)
            ELSE Built(dip_end_idx, bottom_end_idx, find_rebound_end(rows, bottom_end_idx + 1))
        AfterDip(dip_end_idx) ==
            IF dip_end_idx = NoIdx \/ dip_end_idx >= n THEN Discarded(dip_end_idx, NoIdx)
            ELSE AfterBottom(dip_end_idx, find_bottom_end(rows, dip_end_idx + 1))
    IN  AfterDip(find_dip_end(rows, dip_start_idx))

---------------------------------------------------------------------------
(* _find_potential_patterns: the accepted candidates, in scan order *)
\* one pass of the loop body: the candidate at bar i, if the bar starts a decline and the
\* candidate is accepted
Scanned(rows, code, i) ==
    IF is_dip_start(rows, i) THEN identify_pattern(rows, code, i) ELSE NotFound

IsFound(pattern) == pattern.found

\* for i in range(PRE_TREND_DAYS, n - 10): what the loop does at each bar, in scan order
scan_candidates(rows, code) ==
    [k \in 1..(Len0(rows) - SCAN_TAIL - PRE_TREND_DAYS) |->
        Scanned(rows, code, PRE_TREND_DAYS + k - 1)]

\* the list the loop appends to
PatternsOf(scan) == SelectSeq(scan, IsFound)

find_potential_patterns(rows, code) == PatternsOf(scan_candidates(rows, code))

\* the scan without the objects built: per scanned bar i (entry i - PRE_TREND_DAYS + 1) what
\* the locator found
LocatedBy(scan) ==
    [k \in DOMAIN scan |->
        [handed |-> scan[k].handed, dip_end |-> scan[k].dip_end,
         bottom_end |-> scan[k].bottom_end, rebound_found |-> scan[k].rebound_found,
         found |-> scan[k].found]]

---------------------------------------------------------------------------
(* The object store: PatternResult(...) creates a new object each time *)
RECURSIVE Objs(_, _)
Objs(patterns, k) == IF k > Len(patterns) THEN <<>> ELSE <<patterns[k].obj>> \o Objs(patterns, k + 1)

\* what each object was built from, and the object as the constructor returned it
Provenance(pattern) ==
    [dip_start |-> pattern.from.dip_start, dip_end |-> pattern.from.dip_end,
     bottom_end |-> pattern.from.bottom_end, rebound_end |-> pattern.from.rebound_end,
     n |-> pattern.from.n, built |-> pattern.obj]

RECURSIVE Froms(_, _)
Froms(patterns, k) ==
    IF k > Len(patterns) THEN <<>> ELSE <<Provenance(patterns[k])>> \o Froms(patterns, k + 1)

\* a store that hands out the objects of an earlier scan of the same boundaries again
AllocateCached(h, o, patterns) ==
    IF /\ Len(patterns) > 0
       /\ Len(o) >= Len(patterns)
       /\ \A k \in 1..Len(patterns) : o[k] = Provenance(patterns[k])
    THEN [heap |-> h, origin |-> o, refs |-> [k \in 1..Len(patterns) |-> k]]
    ELSE [heap |-> h \o Objs(patterns, 1),
          origin |-> o \o Froms(patterns, 1),
          refs |-> [k \in 1..Len(patterns) |-> Len(h) + k]]

\* the references of the candidates, in scan order, and the store holding them
Allocate(h, o, patterns) ==
    [heap |-> h \o Objs(patterns, 1),
     origin |-> o \o Froms(patterns, 1),
     refs |-> [k \in 1..Len(patterns) |-> Len(h) + k]]

---------------------------------------------------------------------------
(* detect_golden_pit *)
\* the length test one bar short
InsufficientDataBelow59(frame) ==
    frame.isNone \/ Len(frame.rows) = 0 \/ Len(frame.rows) < MIN_BARS - 1

\* df is None or df.empty or len(df) < 60
InsufficientData(frame) == frame.isNone \/ Len(frame.rows) = 0 \/ Len(frame.rows) < MIN_BARS

\* max(patterns, key=lambda x: x.confidence): the first of the maximal ones
RECURSIVE BestFrom(_, _, _, _)
BestFrom(h, refs, k, best) ==
    IF k > Len(refs) THEN best
    ELSE BestFrom(h, refs, k + 1,
                  IF FGt(h[refs[k]].confidence, h[best].confidence) THEN refs[k] ELSE best)

\* the last of the maximal ones
RECURSIVE LastBestFrom(_, _, _, _)
LastBestFrom(h, refs, k, best) ==
    IF k > Len(refs) THEN best
    ELSE LastBestFrom(h, refs, k + 1,
                      IF FGe(h[refs[k]].confidence, h[best].confidence) THEN refs[k] ELSE best)

last_best_pattern(h, refs) == LastBestFrom(h, refs, 2, refs[1])

best_pattern(h, refs) == BestFrom(h, refs, 2, refs[1])

\* the store after the call, the reference returned (None = 0), the candidates created and
\* what the scan located
detect_golden_pit(h, o, frame, code) ==
    LET Best(a, scan) ==
            [heap |-> a.heap, origin |-> a.origin,
             ret |-> IF Len(a.refs) = 0 THEN None ELSE best_pattern(a.heap, a.refs),
             patterns |-> a.refs, located |-> LocatedBy(scan)]
        Found(scan) == Best(Allocate(h, o, PatternsOf(scan)), scan)
    IN  IF InsufficientData(frame)
        THEN [heap |-> h, origin |-> o, ret |-> None, patterns |-> <<>>, located |-> <<>>]
        ELSE Found(scan_candidates(sort_values(frame.rows), code))

---------------------------------------------------------------------------
\* the feature test without the rebound-pace condition
check_decline_features_only(result) ==
    ~(result.dip_duration > 10) /\ ~FLt(result.dip_amplitude, FInt(15))

(* _check_panic_wash_features *)
check_panic_wash_features(result) ==
    /\ ~(result.dip_duration > 10)
    /\ ~FLt(result.dip_amplitude, FInt(15))
    /\ ~(/\ result.rebound_duration > 0
         /\ FLt(FScale(result.rebound_amplitude, 1, result.rebound_duration), FInt(2)))

(* detect_panic_wash: lines 198-201 write the result object in place *)
\* the boost without the cap at 100
UncappedBoost(confidence) == FScale(confidence, 11, 10)

BoostedConfidence(confidence) == PyMin(FInt(MAX_CONFIDENCE), FScale(confidence, 11, 10))

Relabel(result) ==
    [result EXCEPT !.pattern_type = "PANIC_WASH",
                   !.confidence = BoostedConfidence(result.confidence)]

detect_panic_wash(h, o, frame, code) ==
    LET Checked(g) ==
            IF g.ret = None THEN g
            ELSE IF check_panic_wash_features(g.heap[g.ret])
            THEN [g EXCEPT !.heap = [g.heap EXCEPT ![g.ret] = Relabel(g.heap[g.ret])]]
            ELSE [g EXCEPT !.ret = None]
    IN  Checked(detect_golden_pit(h, o, frame, code))

---------------------------------------------------------------------------
(* PatternResult.to_dict: round(x, digits), kept as the integer x * 10^digits; the string
   values of the enumerations are given in English *)
PatternTypeValue(pattern_type) ==
    CASE pattern_type = "GOLDEN_PIT" -> "golden pit"
      [] pattern_type = "PANIC_WASH" -> "panic wash"
      [] pattern_type = "UNKNOWN" -> "unknown pattern"

PatternStageValue(stage) ==
    CASE stage = "BEFORE_DIP" -> "before the fall"
      [] stage = "DIPPING" -> "falling"
      [] stage = "BOTTOMING" -> "base"
      [] stage = "REBOUNDING" -> "rebounding"
      [] stage = "BREAKOUT" -> "breaking out"
      [] stage = "COMPLETED" -> "completed"

Pow10(digits) == IF digits = 2 THEN 100 ELSE 10000

\* round half to even, as Python's round
RoundTo(q, digits) ==
    LET whole == q.n \div q.d
        rest == (q.n % q.d) * Pow10(digits)
        lo == rest \div q.d
        twice == 2 * (rest % q.d)
        up == twice > q.d \/ (twice = q.d /\ lo % 2 = 1)
    IN  whole * Pow10(digits) + lo + (IF up THEN 1 ELSE 0)

to_dict(result) ==
    [code |-> result.code,
     pattern_type |-> PatternTypeValue(result.pattern_type),
     confidence |-> RoundTo(result.confidence, 2),
     start_date |-> result.start_date,
     dip_start_date |-> result.dip_start_date,
     bottom_start_date |-> result.bottom_start_date,
     rebound_start_date |-> result.rebound_start_date,
     breakout_date |-> result.breakout_date,
     pre_high |-> RoundTo(FInt(result.pre_high), 4),
     dip_low |-> RoundTo(FInt(result.dip_low), 4),
     rebound_high |-> RoundTo(FInt(result.rebound_high), 4),
     current_stage |-> PatternStageValue(result.current_stage),
     dip_duration |-> result.dip_duration,
     dip_amplitude |-> RoundTo(result.dip_amplitude, 2),
     rebound_duration |-> result.rebound_duration,
     rebound_amplitude |-> RoundTo(result.rebound_amplitude, 2),
     volume_ratio |-> RoundTo(result.volume_ratio, 2),
     buy_signal |-> result.buy_signal,
     buy_reason |-> result.buy_reason,
     risk_level |-> result.risk_level]

NoPatternDict(code) ==
    [code |-> code, pattern_type |-> "no pattern", confidence |-> 0,
     message |-> "no golden pit or panic wash recognised"]

\* a variant that asks detect_golden_pit first and detect_panic_wash only when that finds nothing
analyze_golden_first(h, o, frame, code) ==
    LET Answer(golden) ==
            [heap |-> golden.heap, origin |-> golden.origin, ret |-> golden.ret,
             patterns |-> golden.patterns, located |-> golden.located,
             dict |-> IF golden.ret # None THEN to_dict(golden.heap[golden.ret])
                      ELSE NoPatternDict(code),
             panic_ret |-> None]
    IN  Answer(detect_golden_pit(h, o, frame, code))

(* analyze_pattern: the store after the call, the dictionary returned and the reference
   detect_panic_wash returned to it *)
analyze_pattern(h, o, frame, code) ==
    LET Golden(golden) ==
            IF golden.ret # None
            THEN [heap |-> golden.heap, origin |-> golden.origin, ret |-> golden.ret,
                  patterns |-> golden.patterns, located |-> golden.located,
                  dict |-> to_dict(golden.heap[golden.ret]), panic_ret |-> None]
            ELSE [heap |-> golden.heap, origin |-> golden.origin, ret |-> None,
                  patterns |-> golden.patterns, located |-> golden.located,
                  dict |-> NoPatternDict(code), panic_ret |-> None]
        Panic(panic) ==
            IF panic.ret # None
            THEN [heap |-> panic.heap, origin |-> panic.origin, ret |-> panic.ret,
                  patterns |-> panic.patterns, located |-> panic.located,
                  dict |-> to_dict(panic.heap[panic.ret]), panic_ret |-> panic.ret]
            ELSE Golden(detect_golden_pit(panic.heap, panic.origin, frame, code))
    IN  Panic(detect_panic_wash(h, o, frame, code))

---------------------------------------------------------------------------
(* The bar series handed to the analyzer *)
CODE == "TEST"

Bar(date, open, close, above, below, volume) ==
    [date |-> date, open |-> open, close |-> close,
     high |-> MaxI(open, close) + above, low |-> MinI(open, close) - below, volume |-> volume]

\* n bars: flat at 100 on volume 10; k falling bars of dd each; b base bars swinging bw above the
\* low, the last one a rising bar on doubled volume; r rising bars of u each; t closing bars,
\* each td below the one before
ShapedBar(i, p) ==
    LET s == p.n - (p.k + p.b + p.r + p.t)
        low == 100 - p.k * p.dd
        baseClose(j) == IF j = p.b - 1 THEN low + p.bw + 1
                        ELSE IF j % 2 = 0 THEN low + p.bw ELSE low
        top == low + p.bw + 1
        peak == top + p.r * p.u
    IN  IF i < s THEN Bar(i + 1, 100, 100, 1, 1, 10)
        ELSE IF i < s + p.k
        THEN Bar(i + 1, 100 - (i - s) * p.dd, 100 - (i - s + 1) * p.dd, 0, 0, p.dv)
        ELSE IF i < s + p.k + p.b
        THEN LET j == i - (s + p.k)
             IN  Bar(i + 1,
                     IF j = 0 \/ j = p.b - 1 THEN low ELSE baseClose(j - 1),
                     baseClose(j), 1, 1,
                     IF j = p.b - 1 THEN 2 * p.bv ELSE p.bv)
        ELSE IF i < s + p.k + p.b + p.r
        THEN LET j == i - (s + p.k + p.b)
             IN  Bar(i + 1, top + j * p.u, top + (j + 1) * p.u, 1, 0, p.rv)
        ELSE LET j == i - (s + p.k + p.b + p.r)
             IN  Bar(i + 1, peak - j * p.td, peak - (j + 1) * p.td, 1, 1, 10)

Shaped(p) == [i \in 1..p.n |-> ShapedBar(i - 1, p)]

Reversed(rows) == [i \in 1..Len(rows) |-> rows[Len(rows) + 1 - i]]

ExtraBars == 0
MaxCalls == 2

Lengths == (MIN_BARS - 1)..(MIN_BARS + ExtraBars)

\* sharp and shallow falls, short and longer bases, with and without a rebound and a tail
CoreShapes ==
    [n : Lengths, k : {2, 5}, dd : {4, 8}, b : {2, 5}, bw : {6}, r : {0, 1, 3}, u : {6, 11},
     t : {0, 4}, td : {0, 3}, dv : {16}, bv : {6}, rv : {12}]

\* a base that stays within a narrow range
NarrowShapes ==
    [n : Lengths, k : {2, 5}, dd : {8}, b : {2, 5}, bw : {2}, r : {0, 3}, u : {11},
     t : {0, 4}, td : {0}, dv : {16}, bv : {6}, rv : {12}]

\* a slow fall of 11 or 16 bars
LongShapes ==
    [n : Lengths, k : {11, 16}, dd : {2}, b : {5}, bw : {6}, r : {0, 3}, u : {11},
     t : {0, 1}, td : {0}, dv : {16}, bv : {6}, rv : {12}]

\* a base longer than the base search looks
StaleShapes ==
    [n : Lengths, k : {3}, dd : {4}, b : {22, 25}, bw : {2}, r : {0, 3}, u : {11},
     t : {0, 1}, td : {0}, dv : {4}, bv : {6}, rv : {12}]

\* a base whose last bar has exactly 1.2 times the mean volume of its five-bar window
EvenVolumeShapes ==
    [n : Lengths, k : {5}, dd : {4}, b : {4}, bw : {6}, r : {3}, u : {11},
     t : {4}, td : {0}, dv : {20}, bv : {6}, rv : {12}]

\* a fall of 2% or 4% in all, and a series without any falling bar
ShallowShapes ==
    [n : Lengths, k : {1, 2}, dd : {2}, b : {5}, bw : {2}, r : {3}, u : {11},
     t : {4}, td : {0}, dv : {16}, bv : {6}, rv : {12}]
    \cup [n : Lengths, k : {0}, dd : {2}, b : {0}, bw : {2}, r : {3}, u : {11},
          t : {4}, td : {0}, dv : {16}, bv : {6}, rv : {12}]

Shapes ==
    { p \in CoreShapes \cup NarrowShapes \cup LongShapes \cup StaleShapes
             \cup EvenVolumeShapes \cup ShallowShapes :
        /\ p.n - (p.k + p.b + p.r + p.t) >= PRE_TREND_DAYS
        /\ (p.r = 0 => p.u = 11)
        /\ (p.t = 0 => p.td = 0)
        /\ (p.u = 6 => p.r = 3)
        /\ (p.td = 3 => p.u = 11) }

\* the latest bar replaced: a flat bar on almost no volume, a rising bar on four times the usual
\* volume, a fall back to 97
QuietLast(bar) == [bar EXCEPT !.open = bar.close, !.volume = 1]
LoudLast(bar) == Bar(bar.date, bar.close - 1, bar.close, 1, 0, 40)
CrashLast(bar) == Bar(bar.date, 100, 97, 0, 0, 10)

LastBars == {"quiet", "loud", "crash"}

WithLast(rows, kind) ==
    [rows EXCEPT ![Len(rows)] = CASE kind = "quiet" -> QuietLast(rows[Len(rows)])
                                  [] kind = "loud" -> LoudLast(rows[Len(rows)])
                                  [] kind = "crash" -> CrashLast(rows[Len(rows)])]

\* the shapes whose latest bar is replaced
ClosingShapes ==
    { p \in Shapes :
        /\ p.td = 0 /\ p.bw = 6 /\ p.u = 11
        /\ <<p.k, p.dd, p.b, p.r, p.t>> \in
               {<<5, 4, 5, 1, 0>>, <<2, 4, 2, 3, 4>>, <<5, 8, 5, 3, 4>>, <<11, 2, 5, 3, 1>>} }

\* the fall opened differently: by a bar that gaps down from 105 (106) and rises from 100 to
\* 103 (104), a body of exactly 3% (of 4%); or with its second bar rising from 92 to 96
Openings == {"body3", "body4", "pause"}

WithOpening(rows, s, kind) ==
    CASE kind = "body3" ->
             [rows EXCEPT ![s] = Bar(s, 105, 105, 1, 1, 10), ![s + 1] = Bar(s + 1, 100, 103, 0, 0, 16)]
      [] kind = "body4" ->
             [rows EXCEPT ![s] = Bar(s, 106, 106, 1, 1, 10), ![s + 1] = Bar(s + 1, 100, 104, 0, 0, 16)]
      [] kind = "pause" ->
             [rows EXCEPT ![s + 2] = Bar(s + 2, 92, 96, 0, 0, 16)]

\* create_simple_dip_data: 80 bars, prices in units of 0.01. Closes: 20 bars rising from 10.00 by
\* 0.05 a bar, 5 bars each 5% lower, 10 bars of noise (here +1%, -1% in turn), 15 bars each 3%
\* higher, then padding (here +0.5%, -0.5% in turn), each rounded to the unit
SYNTHETIC_BARS == 80

Scaled(x, per_mille) == (x * per_mille + 500) \div 1000

\* the factor, in thousandths, by which the close of bar i follows from the close before it
SyntheticFactor(i) ==
    IF i < 25 THEN 950
    ELSE IF i < 35 THEN (IF (i - 25) % 2 = 0 THEN 1010 ELSE 990)
    ELSE IF i < 50 THEN 1030
    ELSE IF (i - 50) % 2 = 0 THEN 1005 ELSE 995

\* prices.append(prices[-1] * factor) for the bars first..last in turn, starting from the
\* price before them; the span is halved so that the evaluation stays shallow
Appended(price, first, last) ==
    LET span[x \in Int, lo \in Nat, hi \in Nat] ==
            IF lo > hi THEN x
            ELSE IF lo = hi THEN Scaled(x, SyntheticFactor(lo))
            ELSE span[span[x, lo, (lo + hi) \div 2], (lo + hi) \div 2 + 1, hi]
    IN  span[price, first, last]

SyntheticClose(bar) ==
    IF bar < 20 THEN 1000 + 5 * bar ELSE Appended(1000 + 5 * 19, 20, bar)

\* what the generator draws at random, within its ranges: the open 0.5% above the close on every
\* bar and a volume of 1.5 million ("falling bodies"), or the open 0.5% below the close on
\* every second bar of the rise and the fall and on every bar from the base on, with a volume
\* of 2 million on every fifth bar and 1 million otherwise ("rising bodies"); the high 0.5%
\* above and the low 0.5% below the close; volumes in units of 100 000
SyntheticKinds == {"falling bodies", "rising bodies"}

SyntheticBar(i, kind) ==
    LET Drawn(close, open_per_mille, volume) ==
            [date |-> i + 1, open |-> Scaled(close, open_per_mille), close |-> close,
             high |-> Scaled(close, 1005), low |-> Scaled(close, 995), volume |-> volume]
    IN  IF kind = "falling bodies" THEN Drawn(SyntheticClose(i), 1005, 15)
        ELSE Drawn(SyntheticClose(i),
                   IF i % 2 = 0 \/ i >= 25 THEN 995 ELSE 1005,
                   IF i % 5 = 4 THEN 20 ELSE 10)

create_simple_dip_data(kind) == [i \in 1..SYNTHETIC_BARS |-> SyntheticBar(i - 1, kind)]

\* a series given by its closes and volumes: each bar opens at the close before it, with the
\* high and the low one beyond the body
Path(closes, volumes) ==
    [i \in 1..Len(closes) |->
        Bar(i, IF i = 1 THEN closes[1] ELSE closes[i - 1], closes[i], 1, 1, volumes[i])]

Flat(m, value) == [i \in 1..m |-> value]

\* 20 bars at 100, a fall to 97 and 94 on volume dv, and a base of three bars that ends with a
\* rise from 94 to 99 on more than three times the volume
FallAndBase == Flat(20, 100) \o <<97, 94>> \o <<95, 94, 99>>
FallAndBaseVolume(dv) == Flat(20, 10) \o <<dv, dv>> \o <<6, 6, 20>>

\* after the base wait bars at 104, and a rise to 110 over the last five bars: 60 bars and 84
\* bars in all
Waits == {30, 54}

LateRise(wait) ==
    Path(FallAndBase \o Flat(wait, 104) \o <<105, 106, 107, 108, 110>>,
         FallAndBaseVolume(10) \o Flat(wait + 5, 10))

\* after the base 35 bars at 104
NoRise == Path(FallAndBase \o Flat(35, 104), FallAndBaseVolume(10) \o Flat(35, 10))

\* after the base a rise to 111 in three bars (bars 25 .. 27), k - 1 more bars at 111, and a
\* fall to 108 at bar 27 + k
PullbackAt == 1..5

Pullback(k, dv) ==
    Path(FallAndBase \o <<103, 107, 111>> \o Flat(k - 1, 111) \o Flat(33 - k, 108),
         FallAndBaseVolume(dv) \o Flat(35, 10))

\* a bar that closes at 100 above its own high of 97
OvershootBar(date) == [date |-> date, open |-> 94, close |-> 100, high |-> 97, low |-> 93, volume |-> 6]

\* the fall to 94, a base from bar 22 on that swings between 95 and 94 on even volume for
\* eight bars, and a rise to 112; the base bars 22 + j, j in at, replaced by overshoot bars
Overshoot(at) ==
    LET plain == Path(Flat(20, 100) \o <<97, 94>> \o <<95, 94, 95, 94, 95, 94, 95, 94>>
                          \o <<100, 104, 108>> \o Flat(27, 112),
                      Flat(22, 10) \o Flat(8, 6) \o Flat(30, 10))
    IN  [i \in 1..Len(plain) |-> IF i - 23 \in at THEN OvershootBar(i) ELSE plain[i]]

OvershootAt == {{3, 5}, {4}}

\* flat bars at 100, a fall of 16 bars of 2 each, and a narrow base on even volume that starts
\* left bars before the end of the series (none: the fall ends on the last bar)
LateBaseLeft == {0, 3, 4}

LateBase(left) ==
    Path(Flat(60 - 16 - left, 100) \o [j \in 1..16 |-> 100 - 2 * j]
             \o [j \in 1..left |-> IF j % 2 = 1 THEN 69 ELSE 68],
         Flat(60 - left, 10) \o Flat(left, 6))

\* the series built from paths; the fall on the usual, on half and on 1.6 times the volume
PathRows ==
    {LateRise(wait) : wait \in Waits} \cup {NoRise}
    \cup {Pullback(k, 10) : k \in PullbackAt}
    \cup {Pullback(1, dv) : dv \in {5, 16}}
    \cup {Overshoot(at) : at \in OvershootAt}
    \cup {LateBase(left) : left \in LateBaseLeft}

\* the number of bars before the fall
FlatBars(p) == p.n - (p.k + p.b + p.r + p.t)

\* no frame, an empty frame, the shaped series in date order, some in reverse order, some
\* with the latest bar replaced, some with the fall opened differently, the synthetic series and
\* the series built from paths
Frames ==
    {[isNone |-> TRUE, rows |-> <<>>], [isNone |-> FALSE, rows |-> <<>>]}
    \cup {[isNone |-> FALSE, rows |-> Shaped(p)] : p \in Shapes}
    \cup {[isNone |-> FALSE, rows |-> Reversed(Shaped(p))] : p \in Shapes \cap LongShapes}
    \cup {[isNone |-> FALSE, rows |-> WithLast(Shaped(p), kind)] :
              p \in ClosingShapes, kind \in LastBars}
    \cup {[isNone |-> FALSE, rows |-> WithOpening(Shaped(p), FlatBars(p), kind)] :
              p \in EvenVolumeShapes, kind \in Openings}
    \cup {[isNone |-> FALSE, rows |-> create_simple_dip_data(kind)] : kind \in SyntheticKinds}
    \cup {[isNone |-> FALSE, rows |-> rows] : rows \in PathRows}

---------------------------------------------------------------------------
(* The calls *)
NoValue == [absent |-> TRUE]

\* a variant in which detect_golden_pit sorts the caller's DataFrame itself
df_sorted_in_place(frame) ==
    IF InsufficientData(frame) THEN frame ELSE [frame EXCEPT !.rows = sort_values(frame.rows)]

\* the caller's DataFrame after a call: detect_golden_pit binds the sorted copy to its own name
\* (df = df.sort_values('date').reset_index(drop=True)) and _calculate_indicators adds the
\* columns to a copy (df = df.copy()), so the object passed in is as it was
df_after_call(frame) == frame

\* what a call was made on and what it returned: the DataFrame passed and the same object
\* after the call, the reference, the object behind it as it is at the return, the
\* dictionary (analyze_pattern), the candidates created, what the scan located, and the
\* reference detect_panic_wash returned during the call
CallRecord(op, frame, out, dict, panic_ret) ==
    [op |-> op, frame |-> frame, frame_after |-> df_after_call(frame), ret |-> out.ret,
     val |-> IF out.ret = None THEN NoValue ELSE out.heap[out.ret],
     dict |-> dict, patterns |-> out.patterns, located |-> out.located,
     panic_ret |-> panic_ret]

Init ==
    /\ df \in Frames
    /\ heap = <<>>
    /\ origin = <<>>
    /\ calls = <<>>

DetectGoldenPit ==
    /\ Len(calls) < MaxCalls
    /\ \E out \in {detect_golden_pit(heap, origin, df, CODE)} :
           /\ heap' = out.heap
           /\ origin' = out.origin
           /\ calls' = Append(calls, CallRecord("detect_golden_pit", df, out, NoValue, None))
    /\ df' = df_after_call(df)

DetectPanicWash ==
    /\ Len(calls) < MaxCalls
    /\ \E out \in {detect_panic_wash(heap, origin, df, CODE)} :
           /\ heap' = out.heap
           /\ origin' = out.origin
           /\ calls' = Append(calls, CallRecord("detect_panic_wash", df, out, NoValue, out.ret))
    /\ df' = df_after_call(df)

AnalyzePattern ==
    /\ Len(calls) < MaxCalls
    /\ \E out \in {analyze_pattern(heap, origin, df, CODE)} :
           /\ heap' = out.heap
           /\ origin' = out.origin
           /\ calls' = Append(calls, CallRecord("analyze_pattern", df, out, out.dict, out.panic_ret))
    /\ df' = df_after_call(df)

Next == DetectGoldenPit \/ DetectPanicWash \/ AnalyzePattern

Spec == Init /\ [][Next]_vars

---------------------------------------------------------------------------
(* One analyzer used for several instruments in turn *)
\* the series of three instruments: one in date order with a result, one in reverse date order
\* with a result, one without a falling bar
Instruments ==
    {[isNone |-> FALSE, rows |-> Shaped(p)] : p \in {q \in EvenVolumeShapes : q.n = MIN_BARS}}
    \cup {[isNone |-> FALSE, rows |-> Reversed(Shaped(p))] :
              p \in {q \in Shapes \cap LongShapes :
                         q.n = MIN_BARS /\ q.k = 11 /\ q.r = 3 /\ q.t = 1}}
    \cup {[isNone |-> FALSE, rows |-> Shaped(p)] :
              p \in {q \in ShallowShapes : q.n = MIN_BARS /\ q.k = 0}}

InitInterleaved ==
    /\ df \in Instruments
    /\ heap = <<>>
    /\ origin = <<>>
    /\ calls = <<>>

\* the caller turns to the series of another instrument
NextInstrument ==
    /\ \E other \in Instruments \ {df} : df' = other
    /\ UNCHANGED <<heap, origin, calls>>

NextInterleaved == DetectGoldenPit \/ DetectPanicWash \/ AnalyzePattern \/ NextInstrument

SpecInterleaved == InitInterleaved /\ [][NextInterleaved]_vars

---------------------------------------------------------------------------
(* A series whose first bar has an undefined close or volume *)
\* the cell of the earliest bar replaced by NaN
Undefined(rows, column) == [rows EXCEPT ![1] = [@ EXCEPT ![column] = -1]]

MalformedFrames ==
    {[isNone |-> FALSE, rows |-> Undefined(Shaped(p), column)] :
         p \in ClosingShapes \cup EvenVolumeShapes \cup ShallowShapes,
         column \in {"close", "volume"}}
    \cup {[isNone |-> FALSE, rows |-> Reversed(Undefined(Shaped(p), "close"))] :
              p \in {q \in Shapes \cap LongShapes : q.k = 11}}

\* np.polyfit on a window with a NaN in it: numpy.linalg.lstsq raises LinAlgError (the SVD does
\* not converge) or returns NaN coefficients, depending on the LAPACK the library is built on
PolyfitOnNaN == {"LinAlgError", "nan coefficients"}

\* _is_dip_start is called for every i in range(PRE_TREND_DAYS, n - 10) and nothing between
\* np.polyfit and the caller of detect_golden_pit catches an exception
PolyfitRaises(frame, lapack) ==
    /\ lapack = "LinAlgError"
    /\ ~frame.isNone
    /\ Len(frame.rows) >= MIN_BARS
    /\ \E i \in PRE_TREND_DAYS..(Len(frame.rows) - SCAN_TAIL - 1) :
           WindowHasNaN(sort_values(frame.rows), i)

InitMalformed ==
    /\ df \in MalformedFrames
    /\ heap = <<>>
    /\ origin = <<>>
    /\ calls = <<>>

\* detect_golden_pit(df, code) on either build of the library; the call is recorded with
\* whether it raised
DetectGoldenPitMalformed ==
    /\ Len(calls) < MaxCalls
    /\ \E lapack \in PolyfitOnNaN :
           \E out \in {IF PolyfitRaises(df, lapack)
                        THEN [ret |-> None, heap |-> heap, origin |-> origin,
                              patterns |-> <<>>, located |-> <<>>]
                        ELSE detect_golden_pit(heap, origin, df, CODE)} :
               /\ heap' = out.heap
               /\ origin' = out.origin
               /\ calls' = Append(calls,
                                  CallRecord("detect_golden_pit", df, out, NoValue, None)
                                      @@ [raised |-> PolyfitRaises(df, lapack)])
    /\ df' = df_after_call(df)

NextMalformed == DetectGoldenPitMalformed

SpecMalformed == InitMalformed /\ [][NextMalformed]_vars

---------------------------------------------------------------------------
(* Properties of the three entry points, stated over the calls made so far *)
GOLDEN == "detect_golden_pit"
PANIC == "detect_panic_wash"

\* the calls of op, and those of them that returned a PatternResult
CallsOf(op) == {i \in 1..Len(calls) : calls[i].op = op}
ReturnedBy(op) == {i \in CallsOf(op) : calls[i].ret # None}
Returned == ReturnedBy(GOLDEN) \cup ReturnedBy(PANIC)

\* the boundary indices the result of call i was built from
BoundariesOf(i) == origin[calls[i].ret]

\* C1: every PatternResult returned by detect_golden_pit or detect_panic_wash was built from
\* boundary indices with dip_start < dip_end <= bottom_end <= rebound_end <= n - 1, n being
\* the number of bars of the series
C1_BoundaryOrder ==
    \A i \in Returned :
        LET f == BoundariesOf(i)
        IN  /\ PRE_TREND_DAYS <= f.dip_start
            /\ f.dip_start < f.dip_end
            /\ f.dip_end <= f.bottom_end
            /\ f.bottom_end <= f.rebound_end
            /\ f.rebound_end <= Len(df.rows) - 1

\* a returned result with a base after the decline, a rebound after the base, and bars after
\* the rebound
C1_Witness ==
    \E i \in Returned :
        LET f == BoundariesOf(i)
        IN  f.dip_end < f.bottom_end /\ f.bottom_end < f.rebound_end
               /\ f.rebound_end < Len(df.rows) - 1

\* C2: confidence of every returned result lies in [0, 100] and risk_level in 1..5
C2_ConfidenceAndRiskRange ==
    \A i \in Returned :
        LET r == calls[i].val
        IN  /\ FGe(r.confidence, FInt(0))
            /\ FLe(r.confidence, FInt(100))
            /\ r.risk_level \in 1..5

\* a panic-wash result whose confidence is exactly 100
C2_Witness ==
    \E i \in ReturnedBy(PANIC) :
        calls[i].val.confidence = FInt(100) /\ calls[i].val.risk_level \in {1, 5}

\* the bars in date order, as the analyzer reads them
SortedRows == sort_values(df.rows)

\* the absolute close-to-close change, in percent, from the bar before dip_start to dip_end
DeclinePct(f) ==
    LET before == Close(SortedRows, f.dip_start - 1)
        after == Close(SortedRows, f.dip_end)
    IN  Frac(100 * Abs(after - before), before)

\* C3: for every returned result the reported decline amplitude is the absolute close-to-close
\* change from the bar before dip_start to dip_end and lies in [5, 35], the reported decline
\* duration is dip_end - dip_start + 1 and lies in [2, 15], and the base duration
\* bottom_end - dip_end lies in [3, 20]
C3_DeclineAndBaseRanges ==
    \A i \in Returned :
        LET r == calls[i].val
            f == BoundariesOf(i)
        IN  /\ r.dip_amplitude = DeclinePct(f)
            /\ FGe(r.dip_amplitude, FInt(5)) /\ FLe(r.dip_amplitude, FInt(35))
            /\ r.dip_duration = f.dip_end - f.dip_start + 1
            /\ r.dip_duration \in 2..15
            /\ (f.bottom_end - f.dip_end) \in 3..20

\* a returned result with a decline of more than 10 bars and a base of more than 3
C3_Witness ==
    \E i \in Returned :
        /\ calls[i].val.dip_duration > 10
        /\ BoundariesOf(i).bottom_end - BoundariesOf(i).dip_end > 3

\* some series of exactly 60 bars makes detect_golden_pit return a result
SixtyBarsSuffice ==
    \E frame \in Frames :
        /\ Len(frame.rows) = 60
        /\ detect_golden_pit(<<>>, <<>>, frame, CODE).ret # None

\* C4: on a missing series, an empty series or a series of fewer than 60 bars both
\* detect_golden_pit and detect_panic_wash return None; and a series of exactly 60 bars
\* exists on which detect_golden_pit returns a result
C4_ShortSeriesGiveNone ==
    /\ (df.isNone \/ Len(df.rows) < 60) => Returned = {}
    /\ SixtyBarsSuffice

\* both entry points have been called on a series of 59 bars
C4_Witness ==
    /\ ~df.isNone /\ Len(df.rows) = 59
    /\ CallsOf(GOLDEN) # {} /\ CallsOf(PANIC) # {}

\* C5: two calls of the same entry point on the same series give the same outcome, field by
\* field, whatever was called before them
C5_SameInputSameOutcome ==
    \A i, j \in 1..Len(calls) :
        calls[i].op = calls[j].op =>
            /\ (calls[i].ret = None) = (calls[j].ret = None)
            /\ calls[i].val = calls[j].val
            /\ calls[i].dict = calls[j].dict

\* detect_panic_wash returned a result below the cap twice
C5_Witness ==
    \E i, j \in ReturnedBy(PANIC) :
        i < j /\ FLt(calls[i].val.confidence, FInt(100))

\* the condition of the panic wash on a golden-pit result R
PanicCondition(R) ==
    /\ R.dip_duration <= 10
    /\ FGe(R.dip_amplitude, FInt(15))
    /\ \/ R.rebound_duration = 0
       \/ FGe(FScale(R.rebound_amplitude, 1, R.rebound_duration), FInt(2))

\* C6: detect_panic_wash returns a result exactly when detect_golden_pit on the same series
\* returns a result R with R.dip_duration <= 10, R.dip_amplitude >= 15 and either
\* R.rebound_duration = 0 or R.rebound_amplitude / R.rebound_duration >= 2
C6_PanicWashCondition ==
    \A i \in CallsOf(PANIC), j \in CallsOf(GOLDEN) :
        (calls[i].ret # None) <=> (calls[j].ret # None /\ PanicCondition(calls[j].val))

\* a golden-pit result that fails only the rebound-pace condition, and the panic-wash call
\* that returned None for it
C6_Witness ==
    \E i \in CallsOf(PANIC), j \in ReturnedBy(GOLDEN) :
        /\ calls[i].ret = None
        /\ calls[j].val.dip_duration <= 10
        /\ FGe(calls[j].val.dip_amplitude, FInt(15))
        /\ calls[j].val.rebound_duration > 0
        /\ FLt(FScale(calls[j].val.rebound_amplitude, 1, calls[j].val.rebound_duration),
               FInt(2))

\* C7: a result returned by detect_panic_wash is the golden-pit result of the same series
\* with pattern_type PANIC_WASH and confidence min(100, 1.1 * the golden-pit confidence),
\* which is not below the golden-pit confidence; every other field is the same
C7_PanicWashResult ==
    \A i \in ReturnedBy(PANIC), j \in ReturnedBy(GOLDEN) :
        LET P == calls[i].val
            R == calls[j].val
        IN  /\ R.pattern_type = "GOLDEN_PIT"
            /\ P.pattern_type = "PANIC_WASH"
            /\ P.confidence = PyMin(FInt(100), FScale(R.confidence, 11, 10))
            /\ FGe(P.confidence, R.confidence)
            /\ [P EXCEPT !.pattern_type = R.pattern_type, !.confidence = R.confidence] = R

\* a golden-pit result whose confidence the boost would carry past 100
C7_Witness ==
    \E i \in ReturnedBy(PANIC), j \in ReturnedBy(GOLDEN) :
        /\ FLt(calls[j].val.confidence, FInt(100))
        /\ calls[i].val.confidence = FInt(100)

\* C8: detect_golden_pit returns a result exactly when some candidate validates; the result
\* has the highest confidence among the validated candidates and, among those of that
\* confidence, the earliest decline start
C8_BestCandidate ==
    \A i \in CallsOf(GOLDEN) :
        /\ (calls[i].ret # None) <=> (calls[i].patterns # <<>>)
        /\ calls[i].ret # None =>
              /\ \E k \in DOMAIN calls[i].patterns : calls[i].patterns[k] = calls[i].ret
              /\ \A k \in DOMAIN calls[i].patterns :
                     LET c == calls[i].patterns[k]
                     IN  /\ FLe(heap[c].confidence, calls[i].val.confidence)
                         /\ heap[c].confidence = calls[i].val.confidence =>
                                origin[calls[i].ret].dip_start <= origin[c].dip_start

\* the result was chosen among candidates of lower confidence starting earlier and a candidate
\* of the same confidence starting later
C8_Witness ==
    \E i \in ReturnedBy(GOLDEN) :
        /\ \E k \in DOMAIN calls[i].patterns :
               LET c == calls[i].patterns[k]
               IN  /\ FLt(heap[c].confidence, calls[i].val.confidence)
                   /\ origin[c].dip_start < origin[calls[i].ret].dip_start
        /\ \E k \in DOMAIN calls[i].patterns :
               LET c == calls[i].patterns[k]
               IN  /\ heap[c].confidence = calls[i].val.confidence
                   /\ origin[c].dip_start > origin[calls[i].ret].dip_start

\* C9: a returned result with rebound_duration > 0 reports a rebound_amplitude of at least 10
C9_ReboundAmplitudeFloor ==
    \A i \in Returned :
        calls[i].val.rebound_duration > 0 => FGe(calls[i].val.rebound_amplitude, FInt(10))

\* the object as the constructor call of lines 389-411 returned it
AsConstructed(id) == origin[id].built

\* the objects detect_panic_wash has returned, called directly or by analyze_pattern
PanicReturned == {calls[i].panic_ret : i \in 1..Len(calls)} \ {None}

ConstructedAfterValidation ==
    \A id \in DOMAIN heap :
        validate_pattern(SortedRows, origin[id].dip_start, origin[id].dip_end,
                         origin[id].bottom_end, origin[id].rebound_end)

\* C10: every PatternResult is constructed from boundaries _validate_pattern accepts, and
\* keeps the fields the constructor gave it, except that detect_panic_wash (called directly
\* or by analyze_pattern) overwrites pattern_type and confidence of the result it returns
C10_ValidatedAndOnlyPanicWashWrites ==
    /\ ConstructedAfterValidation
    /\ \A id \in DOMAIN heap :
           IF id \in PanicReturned
           THEN /\ [heap[id] EXCEPT !.pattern_type = "GOLDEN_PIT",
                                    !.confidence = AsConstructed(id).confidence]
                      = AsConstructed(id)
                /\ heap[id].pattern_type = "PANIC_WASH"
           ELSE heap[id] = AsConstructed(id)

\* detect_panic_wash returned an object whose confidence it changed
C10_Witness ==
    \E id \in PanicReturned : heap[id].confidence # AsConstructed(id).confidence

\* C10 as stated: every PatternResult is constructed from boundaries _validate_pattern
\* accepts and no field of it is changed afterwards
C10_NeverMutated ==
    /\ ConstructedAfterValidation
    /\ \A id \in DOMAIN heap : heap[id] = AsConstructed(id)

---------------------------------------------------------------------------
(* The buy signal *)
\* the latest bar of the series call i was made on, and the sum of the last five volumes
LastIdx == Len0(SortedRows) - 1
LastFiveVolumes == SumVolume(SortedRows, LastIdx - 4, LastIdx + 1)

\* volume_ratio of the latest bar below 0.7 / above 1.5: its volume against the mean of the last
\* five volumes
LastVolumeShrunk == 50 * Volume(SortedRows, LastIdx) < 7 * LastFiveVolumes
LastVolumeExpanded == 10 * Volume(SortedRows, LastIdx) > 3 * LastFiveVolumes

\* the body of the latest bar is below 2% of its open
LastBodySmall ==
    100 * Abs(Close(SortedRows, LastIdx) - Open(SortedRows, LastIdx))
        < 2 * Open(SortedRows, LastIdx)

LastBullish == Close(SortedRows, LastIdx) > Open(SortedRows, LastIdx)

BasingBuy(i) ==
    /\ calls[i].val.current_stage = "BOTTOMING"
    /\ LastVolumeShrunk
    /\ LastBodySmall

ReboundingBuy(i) ==
    /\ calls[i].val.current_stage = "REBOUNDING"
    /\ LastIdx - BoundariesOf(i).bottom_end <= 5
    /\ LastBullish
    /\ LastVolumeExpanded

\* C13: the buy signal of a returned result is true exactly when the phase is basing and the
\* latest bar has volume_ratio < 0.7 and a body below 2% of its open, or the phase is rebounding
\* and the latest bar is at most 5 bars after the base end, bullish, with volume_ratio > 1.5;
\* it is false in the breakout phase; and buy_reason is the "no clear buy point yet" text
\* exactly when buy_signal is false
C13_BuySignal ==
    \A i \in Returned :
        /\ calls[i].val.buy_signal = (BasingBuy(i) \/ ReboundingBuy(i))
        /\ (calls[i].val.current_stage = "BREAKOUT" => ~calls[i].val.buy_signal)
        /\ (calls[i].val.buy_reason = BUY_NONE) = ~calls[i].val.buy_signal

\* a result in the rebounding phase, within 5 bars of the base end, was returned with the buy
\* signal set
C13_Witness ==
    \E i \in Returned :
        /\ calls[i].val.buy_signal
        /\ calls[i].val.buy_reason = BUY_REBOUND
        /\ ReboundingBuy(i)

---------------------------------------------------------------------------
(* The breakout *)
\* the bars strictly after the rebound end of the result of call i whose high is above its
\* pre_high
BreakoutBars(i) ==
    {j \in (BoundariesOf(i).rebound_end + 1)..LastIdx :
        High(SortedRows, j) > calls[i].val.pre_high}

FirstOf(S) == CHOOSE j \in S : \A k \in S : j <= k

\* C14: in every returned result current_stage is BREAKOUT exactly when breakout_date is
\* present, which is exactly when some bar strictly after the rebound end has a high above
\* pre_high, and breakout_date is then the date of the first such bar
C14_BreakoutIffDate ==
    \A i \in Returned :
        /\ (calls[i].val.current_stage = "BREAKOUT") = (calls[i].val.breakout_date # None)
        /\ (calls[i].val.breakout_date # None) = (BreakoutBars(i) # {})
        /\ BreakoutBars(i) # {} =>
               calls[i].val.breakout_date = Date(SortedRows, FirstOf(BreakoutBars(i)))

\* the part of C14 the code keeps: breakout_date is the date of the first bar strictly after the
\* rebound end whose high is above pre_high, absent when there is none, and a result with a
\* breakout_date is in the BREAKOUT stage
BreakoutDateIsFirstBarAbove ==
    \A i \in Returned :
        /\ (calls[i].val.breakout_date # None) = (BreakoutBars(i) # {})
        /\ BreakoutBars(i) # {} =>
               /\ calls[i].val.breakout_date = Date(SortedRows, FirstOf(BreakoutBars(i)))
               /\ calls[i].val.current_stage = "BREAKOUT"

---------------------------------------------------------------------------
(* analyze_pattern *)
ANALYZE == "analyze_pattern"

\* the dictionary of what detect_golden_pit gives on the series, the 'no pattern' dictionary
\* when it gives None
GoldenDict ==
    LET Of(golden) ==
            IF golden.ret # None THEN to_dict(golden.heap[golden.ret]) ELSE NoPatternDict(CODE)
    IN  Of(detect_golden_pit(<<>>, <<>>, df, CODE))

\* C15: analyze_pattern returns the dictionary of the panic-wash result whenever
\* detect_panic_wash yields one on the series, otherwise the dictionary of the golden-pit
\* result whenever detect_golden_pit yields one, and the 'no pattern' dictionary, with
\* confidence 0, exactly when detect_golden_pit returns None
C15_PanicWashFirst ==
    \A a \in CallsOf(ANALYZE) :
        /\ \A p \in CallsOf(PANIC) :
               calls[a].dict = IF calls[p].ret # None THEN to_dict(calls[p].val) ELSE GoldenDict
        /\ \A g \in CallsOf(GOLDEN) :
               /\ (calls[a].dict = NoPatternDict(CODE)) = (calls[g].ret = None)
               /\ calls[g].ret = None => calls[a].dict.confidence = 0

\* analyze_pattern returned the dictionary of a panic wash on a series on which
\* detect_panic_wash yields a result
C15_Witness ==
    \E a \in CallsOf(ANALYZE), p \in ReturnedBy(PANIC) :
        /\ calls[a].dict = to_dict(calls[p].val)
        /\ calls[a].dict.pattern_type = PatternTypeValue("PANIC_WASH")

---------------------------------------------------------------------------
(* The scanner *)
\* the bars the scanner tests in a series of n bars, 20 <= i < n - 10 and none when n < 60, and
\* what the scan of call c kept of bar i
ScannedBars(rows) == {i \in 20..(Len0(rows) - 11) : Len0(rows) >= 60}
LocatedAt(c, i) == calls[c].located[i - 19]

\* the least-squares slope of the 20 closes y_0 .. y_19 before bar i over x = 0 .. 19,
\* (20 Sxy - 190 Sy) / 13300, divided by their mean Sy / 20, is not below -0.005; multiplied
\* out for positive closes: the sum of (800 k - 7467) y_k is not negative
TrendNotFalling(rows, i) ==
    LET weighted[k \in 0..19] ==
            (800 * k - 7467) * Close(rows, i - 20 + k) + (IF k = 0 THEN 0 ELSE weighted[k - 1])
    IN  weighted[19] >= 0

\* the close of bar i is at least 1.5% below the close of bar i - 1
ClosesLower(rows, i) == 200 * (Close(rows, i) - Close(rows, i - 1)) <= -3 * Close(rows, i - 1)

RisingBody(rows, i) == Close(rows, i) - Open(rows, i)

\* a series without a bar closing at least 1.5% lower gives no candidate and no result
NoFallNoCandidate(rows, c) ==
    (\A j \in 1..(Len0(rows) - 1) : ~ClosesLower(rows, j)) =>
        /\ \A i \in ScannedBars(rows) : ~LocatedAt(c, i).handed
        /\ calls[c].ret = None

\* C17 as stated: the scanner tests every bar i with 20 <= i < n - 10 and hands it to the
\* boundary locator exactly when the trend of the 20 closes before it is not below -0.5% per
\* bar, its close is at least 1.5% below the previous close and, if it is bullish, its body is
\* below 3% of its open; a series without a bar closing at least 1.5% lower gives no
\* candidate and detect_golden_pit returns None
C17_BodyBelowThreePercent ==
    LET Holds(rows) ==
            \A c \in 1..Len(calls) :
                /\ DOMAIN calls[c].located = {i - 19 : i \in ScannedBars(rows)}
                /\ \A i \in ScannedBars(rows) :
                       LocatedAt(c, i).handed =
                           (/\ ClosesLower(rows, i)
                            /\ RisingBody(rows, i) > 0 =>
                                   100 * RisingBody(rows, i) < 3 * Open(rows, i)
                            /\ TrendNotFalling(rows, i))
                /\ NoFallNoCandidate(rows, c)
    IN  df.isNone \/ Holds(SortedRows)

\* C17 with the third condition as the code has it: a bullish bar is handed on when its body
\* does not exceed 3% of its open
C17_ScannerConditions ==
    LET Holds(rows) ==
            \A c \in 1..Len(calls) :
                /\ DOMAIN calls[c].located = {i - 19 : i \in ScannedBars(rows)}
                /\ \A i \in ScannedBars(rows) :
                       LocatedAt(c, i).handed =
                           (/\ ClosesLower(rows, i)
                            /\ RisingBody(rows, i) > 0 =>
                                   100 * RisingBody(rows, i) <= 3 * Open(rows, i)
                            /\ TrendNotFalling(rows, i))
                /\ NoFallNoCandidate(rows, c)
    IN  df.isNone \/ Holds(SortedRows)

\* a bullish bar with a body of exactly 3% of its open, closing lower after a trend that is not
\* falling, was handed to the locator
C17_Witness ==
    LET Seen(rows) ==
            \E c \in CallsOf(GOLDEN) :
                \E i \in ScannedBars(rows) :
                    /\ LocatedAt(c, i).handed
                    /\ RisingBody(rows, i) > 0
                    /\ 100 * RisingBody(rows, i) = 3 * Open(rows, i)
    IN  ~df.isNone /\ Seen(SortedRows)

---------------------------------------------------------------------------
(* The end of the decline *)
\* the bars the search for candidate s looks at: s+1 .. s+15, as far as the series goes
DeclineSpan(rows, s) == (s + 1)..MinI(s + 15, Len0(rows) - 1)

\* bar i and bar i-1 are both bullish, or the body gain of bar i exceeds 3% of its open
Reversal(rows, i) ==
    \/ Close(rows, i) > Open(rows, i) /\ Close(rows, i - 1) > Open(rows, i - 1)
    \/ 100 * (Close(rows, i) - Open(rows, i)) > 3 * Open(rows, i)

\* the close of bar i is more than 5% (at least 5%) below the close of the bar before s
MoreThanFiveBelow(rows, s, i) == 100 * (Close(rows, s - 1) - Close(rows, i)) > 5 * Close(rows, s - 1)
AtLeastFiveBelow(rows, s, i) == 100 * (Close(rows, s - 1) - Close(rows, i)) >= 5 * Close(rows, s - 1)

\* the bars at which the search for s terminates early, if it gets there
EarlyStops(rows, s) ==
    {i \in DeclineSpan(rows, s) : Reversal(rows, i) /\ MoreThanFiveBelow(rows, s, i)}

\* the candidates of call c
HandedIn(rows, c) == {s \in ScannedBars(rows) : LocatedAt(c, s).handed}

\* C18: the decline-end search for candidate s scans bars s+1 .. s+15 in order and returns the
\* first bar i at which bar i and bar i-1 are both bullish, or the body gain of bar i exceeds
\* 3%, and the close of bar i is more than 5% below the close of bar s-1; a reversal while
\* the decline is 5% or less does not stop it
C18_DeclineEndsAtFirstDeepReversal ==
    LET Holds(rows) ==
            \A c \in 1..Len(calls) :
                \A s \in HandedIn(rows, c) :
                    /\ EarlyStops(rows, s) # {} =>
                           LocatedAt(c, s).dip_end = FirstOf(EarlyStops(rows, s))
                    /\ \A i \in DeclineSpan(rows, s) :
                           LocatedAt(c, s).dip_end = i /\ Reversal(rows, i) =>
                               \A j \in (s + 1)..(i - 1) :
                                   ~(Reversal(rows, j) /\ MoreThanFiveBelow(rows, s, j))
    IN  df.isNone \/ Holds(SortedRows)

\* the search for a candidate went past a reversal at a decline of 5% or less and stopped at a
\* later reversal more than 5% down
C18_Witness ==
    LET Seen(rows) ==
            \E c \in CallsOf(GOLDEN) :
                \E s \in HandedIn(rows, c) :
                    /\ EarlyStops(rows, s) # {}
                    /\ LocatedAt(c, s).dip_end = FirstOf(EarlyStops(rows, s))
                    /\ \E j \in (s + 1)..(LocatedAt(c, s).dip_end - 1) :
                           Reversal(rows, j) /\ ~MoreThanFiveBelow(rows, s, j)
    IN  ~df.isNone /\ Seen(SortedRows)

\* the first bar with the lowest close among bars s .. s+15
LowestClose(rows, s) ==
    CHOOSE m \in {s} \cup DeclineSpan(rows, s) :
        \A i \in {s} \cup DeclineSpan(rows, s) :
            Close(rows, m) < Close(rows, i) \/ (Close(rows, m) = Close(rows, i) /\ m <= i)

\* C19: when the decline-end search exhausts its span without early termination, it returns
\* the index of the lowest close only if that close is at least 5% below the close of the bar
\* before the candidate; otherwise it returns no boundary and the candidate produces no
\* PatternResult. It returns that index exactly when, in addition, the lowest close lies
\* after the candidate bar
C19_LowestCloseIfDeepEnough ==
    LET Holds(rows) ==
            \A c \in 1..Len(calls) :
                \A s \in HandedIn(rows, c) :
                    EarlyStops(rows, s) = {} =>
                        /\ LocatedAt(c, s).dip_end =
                               IF /\ AtLeastFiveBelow(rows, s, LowestClose(rows, s))
                                  /\ LowestClose(rows, s) > s
                               THEN LowestClose(rows, s)
                               ELSE NoIdx
                        /\ LocatedAt(c, s).dip_end = NoIdx => ~LocatedAt(c, s).found
                        /\ (\A i \in DeclineSpan(rows, s) : ~AtLeastFiveBelow(rows, s, i)) =>
                               LocatedAt(c, s).dip_end = NoIdx
    IN  df.isNone \/ Holds(SortedRows)

\* a candidate whose lowest close stays less than 5% down was discarded after a second falling
\* bar
C19_Witness ==
    LET Seen(rows) ==
            \E c \in CallsOf(GOLDEN) :
                \E s \in HandedIn(rows, c) :
                    /\ EarlyStops(rows, s) = {}
                    /\ LowestClose(rows, s) > s
                    /\ ~AtLeastFiveBelow(rows, s, LowestClose(rows, s))
                    /\ LocatedAt(c, s).dip_end = NoIdx
                    /\ calls[c].ret = None
    IN  ~df.isNone /\ Seen(SortedRows)

---------------------------------------------------------------------------
(* The end of the base *)
\* the bars the search for the end of a base starting at b looks at
BaseSpan(rows, b) == (b + 1)..MinI(b + 20, Len0(rows) - 1)

\* the envelope of bars b .. i is wider than 5% of its low
EnvelopeWide(rows, b, i) ==
    100 * (MaxHigh(rows, b, i + 1) - MinLow(rows, b, i + 1)) > 5 * MinLow(rows, b, i + 1)

\* the volume of bar i against 1.2 times the mean volume of bars i-4 .. i
VolumeAtLeast(rows, i) == 25 * Volume(rows, i) >= 6 * SumVolume(rows, i - 4, i + 1)
VolumeAbove(rows, i) == 25 * Volume(rows, i) > 6 * SumVolume(rows, i - 4, i + 1)

\* no bar closes above its own high
HighsCoverCloses(rows) == \A i \in 0..(Len0(rows) - 1) : Close(rows, i) <= High(rows, i)

\* the candidates of call c for which a base was searched, and where it was searched from
BasedIn(rows, c) ==
    {s \in HandedIn(rows, c) :
        LocatedAt(c, s).dip_end # NoIdx /\ LocatedAt(c, s).dip_end + 1 < Len0(rows)}
BaseStart(c, s) == LocatedAt(c, s).dip_end + 1

\* C20 as stated: the base-end search returns the first bar i after the base start at which
\* the envelope of the base is wider than 5% and bar i is bullish with a volume of at least 1.2
\* times its 5-bar volume average
C20_VolumeAtLeast ==
    LET Stops(rows, b) ==
            {i \in BaseSpan(rows, b) :
                /\ EnvelopeWide(rows, b, i)
                /\ Close(rows, i) > Open(rows, i)
                /\ VolumeAtLeast(rows, i)}
        Holds(rows) ==
            \A c \in 1..Len(calls) :
                \A s \in BasedIn(rows, c) :
                    Stops(rows, BaseStart(c, s)) # {} /\ HighsCoverCloses(rows) =>
                        LocatedAt(c, s).bottom_end = FirstOf(Stops(rows, BaseStart(c, s)))
    IN  df.isNone \/ Holds(SortedRows)

\* C20 with the comparison the code makes: the base-end search returns the first bar i after
\* the base start at which the envelope of the base is wider than 5% and bar i is bullish with
\* a volume above 1.2 times its 5-bar volume average (on bars whose high is not below their
\* close, where no close can break the envelope earlier)
C20_BaseEndsAtFirstVolumeBar ==
    LET Stops(rows, b) ==
            {i \in BaseSpan(rows, b) :
                /\ EnvelopeWide(rows, b, i)
                /\ Close(rows, i) > Open(rows, i)
                /\ VolumeAbove(rows, i)}
        Holds(rows) ==
            \A c \in 1..Len(calls) :
                \A s \in BasedIn(rows, c) :
                    Stops(rows, BaseStart(c, s)) # {} /\ HighsCoverCloses(rows) =>
                        LocatedAt(c, s).bottom_end = FirstOf(Stops(rows, BaseStart(c, s)))
    IN  df.isNone \/ Holds(SortedRows)

\* the search went past a bullish bar with exactly 1.2 times the average volume in a base
\* already wider than 5%, and ended at a later bar with more
C20_Witness ==
    LET Seen(rows) ==
            \E c \in CallsOf(GOLDEN) :
                \E s \in BasedIn(rows, c) :
                    /\ LocatedAt(c, s).bottom_end \in BaseSpan(rows, BaseStart(c, s))
                    /\ VolumeAbove(rows, LocatedAt(c, s).bottom_end)
                    /\ EnvelopeWide(rows, BaseStart(c, s), LocatedAt(c, s).bottom_end)
                    /\ \E i \in (BaseStart(c, s) + 1)..(LocatedAt(c, s).bottom_end - 1) :
                           /\ EnvelopeWide(rows, BaseStart(c, s), i)
                           /\ Close(rows, i) > Open(rows, i)
                           /\ VolumeAtLeast(rows, i)
                           /\ ~VolumeAbove(rows, i)
    IN  ~df.isNone /\ Seen(SortedRows)

---------------------------------------------------------------------------
(* Calls on several series *)
\* what a call of op on frame gives when nothing was called before it
Alone(op, frame) ==
    LET Outcome(out, dict) ==
            [none |-> out.ret = None,
             val |-> IF out.ret = None THEN NoValue ELSE out.heap[out.ret],
             dict |-> dict, located |-> out.located]
        Analyzed(out) == Outcome(out, out.dict)
    IN  CASE op = GOLDEN -> Outcome(detect_golden_pit(<<>>, <<>>, frame, CODE), NoValue)
          [] op = PANIC -> Outcome(detect_panic_wash(<<>>, <<>>, frame, CODE), NoValue)
          [] op = ANALYZE -> Analyzed(analyze_pattern(<<>>, <<>>, frame, CODE))

OutcomeOf(c) ==
    [none |-> calls[c].ret = None, val |-> calls[c].val, dict |-> calls[c].dict,
     located |-> calls[c].located]

\* C12: a call leaves the caller's bar sequence as it was passed (same rows, same order, no
\* added columns), and its outcome is what the same call gives on a fresh analyzer, whatever
\* was evaluated before it on the same or on another series
C12_FrameUnchangedNoCarryOver ==
    /\ \A c \in 1..Len(calls) : calls[c].frame_after = calls[c].frame
    /\ Len(calls) > 0 =>
           OutcomeOf(Len(calls)) = Alone(calls[Len(calls)].op, calls[Len(calls)].frame)

\* a result was returned for a series passed in reverse date order, right after a result for
\* another instrument's series
C12_Witness ==
    /\ Len(calls) = 2
    /\ calls[1].frame # calls[2].frame
    /\ calls[1].ret # None /\ calls[2].ret # None
    /\ calls[2].frame.rows # sort_values(calls[2].frame.rows)
    /\ calls[2].frame_after = calls[2].frame

---------------------------------------------------------------------------
(* The synthetic series *)
\* C16: on every 80-bar series of the synthetic generator (20 bars rising gently from 10.0,
\* 5 bars each closing 5% lower, 10 bars of noise, 15 bars each closing 3% higher, padding;
\* opens, highs, lows and volumes within the generator's ranges) detect_golden_pit returns a
\* result with pattern_type GOLDEN_PIT, a decline amplitude in [5, 35] and a decline duration
\* in [2, 15]
C16_SyntheticSeriesDetected ==
    Len(df.rows) = SYNTHETIC_BARS =>
        \A c \in CallsOf(GOLDEN) :
            /\ calls[c].ret # None
            /\ calls[c].val.pattern_type = "GOLDEN_PIT"
            /\ FGe(calls[c].val.dip_amplitude, FInt(5))
            /\ FLe(calls[c].val.dip_amplitude, FInt(35))
            /\ calls[c].val.dip_duration \in 2..15

\* what the code keeps of C16: a result returned for a synthetic series is a GOLDEN_PIT with
\* the decline within the ranges
SyntheticResultInRange ==
    Len(df.rows) = SYNTHETIC_BARS =>
        \A c \in ReturnedBy(GOLDEN) :
            /\ calls[c].val.pattern_type = "GOLDEN_PIT"
            /\ FGe(calls[c].val.dip_amplitude, FInt(5))
            /\ FLe(calls[c].val.dip_amplitude, FInt(35))
            /\ calls[c].val.dip_duration \in 2..15


---------------------------------------------------------------------------
RaisesOnlyOnNaNClose ==
    \A k \in 1..Len(calls) :
        /\ calls[k].raised =>
               \E i \in 1..Len(calls[k].frame.rows) : IsNaNCell(calls[k].frame.rows[i].close)
        /\ ~calls[k].raised =>
               (calls[k].ret = None \/ calls[k].val.pattern_type = "GOLDEN_PIT")


---------------------------------------------------------------------------
(* The end of the base: a close above the envelope *)
\* bar i closes more than 2% above the highest high of bars b .. i, its own high included
ClosesAboveEnvelope(rows, b, i) == 100 * Close(rows, i) > 102 * MaxHigh(rows, b, i + 1)

\* the bars at which the first rule ends the base that starts at b, if the search gets there
VolumeStops(rows, b) ==
    {i \in BaseSpan(rows, b) :
        /\ EnvelopeWide(rows, b, i)
        /\ Close(rows, i) > Open(rows, i)
        /\ VolumeAbove(rows, i)}

\* the bars at least after bars past b that close above the envelope
BreakoutStops(rows, b, after) ==
    {i \in BaseSpan(rows, b) : i - b >= after /\ ClosesAboveEnvelope(rows, b, i)}

---------------------------------------------------------------------------
(* The end of the rebound *)
\* the candidates of call c for which a base end was found, and the bar after it, where the
\* rebound is searched from
ReboundSearchedIn(rows, c) ==
    {s \in BasedIn(rows, c) :
        LocatedAt(c, s).bottom_end # NoIdx /\ LocatedAt(c, s).bottom_end < Len0(rows)}
ReboundStart(c, s) == LocatedAt(c, s).bottom_end + 1

\* the bars the rebound search starting at r looks at
ReboundSpan(rows, r) == r..MinI(r + 29, Len0(rows) - 1)

\* the bars from the third rebound bar on at which the highest high since r is at least 10%
\* above the close of the base end
ReboundReached(rows, r) ==
    {i \in ReboundSpan(rows, r) :
        /\ i >= r + 2
        /\ 100 * (MaxHigh(rows, r, i + 1) - Close(rows, r - 1)) >= 10 * Close(rows, r - 1)}

\* the bars among the ahead bars after i that close more than 2% below the bar before them
PullbacksAfter(rows, i, ahead) ==
    {j \in (i + 1)..MinI(i + ahead, Len0(rows) - 1) :
        100 * Close(rows, j) < 98 * Close(rows, j - 1)}

\* the bar before the first pullback among the ahead bars after i, or i
ReboundEndFrom(rows, i, ahead) ==
    IF PullbacksAfter(rows, i, ahead) # {} THEN FirstOf(PullbacksAfter(rows, i, ahead)) - 1 ELSE i

\* C22 as stated: once the rebound high is at least 10% above the base-end close and at least 3
\* rebound bars have elapsed at bar i, the rebound-end search inspects the next 5 bars
\* i+1 .. i+5 for a close more than 2% below the previous close; it returns j-1 for the first
\* such bar j, otherwise i
C22_LooksAheadFiveBars ==
    LET Holds(rows) ==
            \A c \in 1..Len(calls) :
                \A s \in ReboundSearchedIn(rows, c) :
                    ReboundReached(rows, ReboundStart(c, s)) # {} =>
                        LocatedAt(c, s).rebound_found =
                            ReboundEndFrom(rows, FirstOf(ReboundReached(rows, ReboundStart(c, s))), 5)
    IN  df.isNone \/ Holds(SortedRows)

\* C22 with the bars the code inspects: the next 4 bars i+1 .. i+4, as far as the series
\* reaches
C22_LooksAheadFourBars ==
    LET Holds(rows) ==
            \A c \in 1..Len(calls) :
                \A s \in ReboundSearchedIn(rows, c) :
                    ReboundReached(rows, ReboundStart(c, s)) # {} =>
                        LocatedAt(c, s).rebound_found =
                            ReboundEndFrom(rows, FirstOf(ReboundReached(rows, ReboundStart(c, s))), 4)
    IN  df.isNone \/ Holds(SortedRows)

\* the rebound of a returned result ended at i + 3, the bar before a pullback at the fourth
\* bar after the bar i at which the rebound was reached
C22_Witness ==
    LET Seen(rows) ==
            \E c \in ReturnedBy(GOLDEN) :
                \E s \in ReboundSearchedIn(rows, c) :
                    /\ LocatedAt(c, s).found
                    /\ ReboundReached(rows, ReboundStart(c, s)) # {}
                    /\ LocatedAt(c, s).rebound_found =
                           FirstOf(ReboundReached(rows, ReboundStart(c, s))) + 3
                    /\ LocatedAt(c, s).rebound_found + 1 \in
                           PullbacksAfter(rows, FirstOf(ReboundReached(rows, ReboundStart(c, s))), 4)
    IN  ~df.isNone /\ Seen(SortedRows)

---------------------------------------------------------------------------
(* A rebound that is not complete *)
\* the highest high of the rebound span never gets 10% above the close of the base end
ReboundNeverReached(rows, r) ==
    \A i \in ReboundSpan(rows, r) :
        100 * (MaxHigh(rows, r, i + 1) - Close(rows, r - 1)) < 10 * Close(rows, r - 1)

\* what the validator asks of the decline of candidate s and of its base
DeclineAndBaseAccepted(rows, s, dip_end, bottom_end) ==
    LET fall == Close(rows, s - 1) - Close(rows, dip_end)
        size == IF fall < 0 THEN -fall ELSE fall
    IN  /\ s < dip_end /\ dip_end <= bottom_end
        /\ 100 * size >= 5 * Close(rows, s - 1) /\ 100 * size <= 35 * Close(rows, s - 1)
        /\ dip_end - s + 1 >= 2 /\ dip_end - s + 1 <= 15
        /\ bottom_end - dip_end >= 3 /\ bottom_end - dip_end <= 20

\* the candidates of call c whose rebound search ran out of bars below 10%, with a decline and
\* a base the validator accepts
IncompleteIn(rows, c) ==
    {s \in ReboundSearchedIn(rows, c) :
        /\ ReboundStart(c, s) < Len0(rows)
        /\ ReboundNeverReached(rows, ReboundStart(c, s))
        /\ DeclineAndBaseAccepted(rows, s, LocatedAt(c, s).dip_end, LocatedAt(c, s).bottom_end)}

\* the objects call c built for candidate s
BuiltFor(c, s) ==
    {calls[c].patterns[k] : k \in {j \in DOMAIN calls[c].patterns :
                                       origin[calls[c].patterns[j]].dip_start = s}}

\* C23: when the rebound search runs out of bars without the rebound amplitude reaching 10%,
\* the rebound end is the last bar n-1 and the formation is reported, in its rebound stage,
\* rather than discarded
C23_IncompleteReboundReported ==
    LET Holds(rows) ==
            \A c \in 1..Len(calls) :
                \A s \in IncompleteIn(rows, c) :
                    /\ LocatedAt(c, s).rebound_found = NoIdx
                    /\ LocatedAt(c, s).found
                    /\ \A ref \in BuiltFor(c, s) :
                           /\ origin[ref].rebound_end = Len0(rows) - 1
                           /\ origin[ref].built.current_stage = "REBOUNDING"
    IN  df.isNone \/ Holds(SortedRows)

\* such a candidate has no rebound end found, and it is reported exactly when the last close
\* is at least 10% above the close of the base end; its rebound then ends at the last bar, in
\* the rebound stage
IncompleteReboundKeptOnLastClose ==
    LET Holds(rows) ==
            \A c \in 1..Len(calls) :
                \A s \in IncompleteIn(rows, c) :
                    /\ LocatedAt(c, s).rebound_found = NoIdx
                    /\ LocatedAt(c, s).found =
                           (100 * (Close(rows, Len0(rows) - 1) - Close(rows, LocatedAt(c, s).bottom_end))
                                >= 10 * Close(rows, LocatedAt(c, s).bottom_end))
                    /\ LocatedAt(c, s).found => BuiltFor(c, s) # {}
                    /\ \A ref \in BuiltFor(c, s) :
                           /\ origin[ref].rebound_end = Len0(rows) - 1
                           /\ origin[ref].built.current_stage = "REBOUNDING"
    IN  df.isNone \/ Holds(SortedRows)

\* an incomplete rebound was reported, and one was discarded
IncompleteReboundKept ==
    LET Seen(rows) == \E c \in ReturnedBy(GOLDEN) : \E s \in IncompleteIn(rows, c) : LocatedAt(c, s).found
    IN  ~df.isNone /\ Seen(SortedRows)
IncompleteReboundDropped ==
    LET Seen(rows) == \E c \in CallsOf(GOLDEN) : \E s \in IncompleteIn(rows, c) : ~LocatedAt(c, s).found
    IN  ~df.isNone /\ Seen(SortedRows)

---------------------------------------------------------------------------
(* The components of the confidence *)
\* the components of the result call i returned, from the boundaries it was built from
DeclineShapeOf(i) ==
    FAdd(ClosenessScore(FInt(BoundariesOf(i).dip_end - BoundariesOf(i).dip_start + 1),
                        DIP_MIN_DAYS, DIP_MAX_DAYS, 15, 2),
         ClosenessScore(FAbs(BoundariesOf(i).built.dip_amplitude),
                        DIP_MIN_AMPLITUDE, DIP_MAX_AMPLITUDE, 15, 2))

BaseShapeOf(i) ==
    ClosenessScore(FInt(BoundariesOf(i).bottom_end - BoundariesOf(i).dip_end),
                   BOTTOM_MIN_DAYS, BOTTOM_MAX_DAYS, 20, 3)

ReboundShapeOf(i) ==
    ReboundScore(BoundariesOf(i).bottom_end, BoundariesOf(i).rebound_end,
                 BoundariesOf(i).built.rebound_amplitude)

VolumeScoreOf(rows, i) ==
    calculate_volume_score(rows, BoundariesOf(i).dip_start, BoundariesOf(i).dip_end,
                           BoundariesOf(i).bottom_end, BoundariesOf(i).rebound_end)

TechnicalScoreOf(rows, i) ==
    calculate_technical_score(rows, BoundariesOf(i).dip_start, BoundariesOf(i).dip_end,
                              BoundariesOf(i).bottom_end, BoundariesOf(i).rebound_end)

WithinBudget(score, budget) == FGe(score, FInt(0)) /\ FLe(score, FInt(budget))

\* the confidence as constructed is 50 plus the five components, clamped
SumOfComponents(rows, i) ==
    BoundariesOf(i).built.confidence =
        ClampConfidence(FAdd(FAdd(FAdd(FAdd(FAdd(FInt(BASE_CONFIDENCE), DeclineShapeOf(i)),
                                            BaseShapeOf(i)),
                                       ReboundShapeOf(i)),
                                  FInt(VolumeScoreOf(rows, i))),
                             FInt(TechnicalScoreOf(rows, i))))

\* C24: the confidence is 50 plus five components, each between 0 and its budget (decline
\* shape 30, base shape 20, rebound shape 20, volume 10, technical 10); no component is
\* negative, and every returned result has a confidence of at least 50
C24_ComponentsWithinBudget ==
    LET Holds(rows) ==
            \A i \in Returned :
                /\ SumOfComponents(rows, i)
                /\ WithinBudget(DeclineShapeOf(i), 30)
                /\ WithinBudget(BaseShapeOf(i), 20)
                /\ WithinBudget(ReboundShapeOf(i), 20)
                /\ WithinBudget(FInt(VolumeScoreOf(rows, i)), 10)
                /\ WithinBudget(FInt(TechnicalScoreOf(rows, i)), 10)
                /\ FGe(BoundariesOf(i).built.confidence, FInt(BASE_CONFIDENCE))
                /\ FGe(calls[i].val.confidence, FInt(BASE_CONFIDENCE))
    IN  df.isNone \/ Holds(SortedRows)

\* what holds of the components: the sum, the budgets of the four other components, the upper
\* limit of the rebound shape; and the rebound shape is negative only for a rebound of more
\* than 23 bars
ComponentsButReboundWithinBudget ==
    LET Holds(rows) ==
            \A i \in Returned :
                /\ SumOfComponents(rows, i)
                /\ WithinBudget(DeclineShapeOf(i), 30)
                /\ WithinBudget(BaseShapeOf(i), 20)
                /\ FLe(ReboundShapeOf(i), FInt(20))
                /\ WithinBudget(FInt(VolumeScoreOf(rows, i)), 10)
                /\ WithinBudget(FInt(TechnicalScoreOf(rows, i)), 10)
                /\ FLt(ReboundShapeOf(i), FInt(0)) =>
                       BoundariesOf(i).rebound_end - BoundariesOf(i).bottom_end > 23
    IN  df.isNone \/ Holds(SortedRows)

\* a returned result with a negative rebound shape, and one with a confidence below 50
ReboundShapeNegative == \E i \in Returned : FLt(ReboundShapeOf(i), FInt(0))
ConfidenceBelowBase == \E i \in Returned : FLt(calls[i].val.confidence, FInt(BASE_CONFIDENCE))

---------------------------------------------------------------------------
(* The volume component *)
\* the mean volume of the decline bars ds .. de against 1.3 times and 0.7 times the mean volume
\* of the 10 bars before ds
DeclineLoud(rows, ds, de) ==
    100 * SumVolume(rows, ds, de + 1) > 13 * SumVolume(rows, ds - 10, ds) * (de - ds + 1)
DeclineQuiet(rows, ds, de) ==
    100 * SumVolume(rows, ds, de + 1) < 7 * SumVolume(rows, ds - 10, ds) * (de - ds + 1)

\* the mean volume of the base bars de+1 .. be is below 0.8 times the mean of the decline
BaseQuiet(rows, ds, de, be) ==
    /\ be > de
    /\ 10 * SumVolume(rows, de + 1, be + 1) * (de - ds + 1) < 8 * SumVolume(rows, ds, de + 1) * (be - de)

\* the mean volume of the rebound bars be+1 .. re is above 1.2 times the mean of the base
ReboundLoud(rows, de, be, re) ==
    /\ re > be
    /\ 10 * SumVolume(rows, be + 1, re + 1) * (be - de) > 12 * SumVolume(rows, de + 1, be + 1) * (re - be)

\* the points of the second and third criterion
BaseAndReboundPoints(rows, b) ==
    (IF BaseQuiet(rows, b.dip_start, b.dip_end, b.bottom_end) THEN 5 ELSE 0)
    + (IF ReboundLoud(rows, b.dip_end, b.bottom_end, b.rebound_end) THEN 5 ELSE 0)

\* C25 as stated: the volume component adds 5 when the decline-phase mean volume is above 1.3
\* times or below 0.7 times the mean volume of the 10 bars before the decline and nothing for
\* that criterion otherwise, 5 when the base-phase mean is below 0.8 times the decline-phase
\* mean, 5 when the rebound-phase mean is above 1.2 times the base-phase mean, capped at 10
C25_FiveForLoudOrQuietDecline ==
    LET Expected(rows, b) ==
            MinI(10, (IF \/ DeclineLoud(rows, b.dip_start, b.dip_end)
                         \/ DeclineQuiet(rows, b.dip_start, b.dip_end) THEN 5 ELSE 0)
                     + BaseAndReboundPoints(rows, b))
        Holds(rows) ==
            \A i \in Returned : VolumeScoreOf(rows, i) = Expected(rows, BoundariesOf(i))
    IN  df.isNone \/ Holds(SortedRows)

\* C25 with the points the code gives for the first criterion: 5 when the decline-phase mean
\* volume is above 1.3 times the mean of the 10 bars before, 3 when it is below 0.7 times, 2
\* otherwise; the volume component enters the confidence as constructed
C25_FiveThreeOrTwoForDecline ==
    LET Expected(rows, b) ==
            MinI(10, (IF DeclineLoud(rows, b.dip_start, b.dip_end) THEN 5
                      ELSE IF DeclineQuiet(rows, b.dip_start, b.dip_end) THEN 3 ELSE 2)
                     + BaseAndReboundPoints(rows, b))
        Holds(rows) ==
            \A i \in Returned :
                /\ VolumeScoreOf(rows, i) = Expected(rows, BoundariesOf(i))
                /\ SumOfComponents(rows, i)
    IN  df.isNone \/ Holds(SortedRows)

\* a returned result whose decline ran on less than 0.7 times the volume before it and whose
\* volume component is 3: nothing for the base and the rebound
C25_Witness ==
    LET Seen(rows) ==
            \E i \in ReturnedBy(GOLDEN) :
                /\ DeclineQuiet(rows, BoundariesOf(i).dip_start, BoundariesOf(i).dip_end)
                /\ BaseAndReboundPoints(rows, BoundariesOf(i)) = 0
                /\ VolumeScoreOf(rows, i) = 3
    IN  ~df.isNone /\ Seen(SortedRows)

\* a returned result with a decline on usual volume and a volume component of 2, and one
\* with all three criteria met and the component capped at 10
VolumeScoreOfTwo ==
    LET Seen(rows) ==
            \E i \in ReturnedBy(GOLDEN) :
                /\ ~DeclineQuiet(rows, BoundariesOf(i).dip_start, BoundariesOf(i).dip_end)
                /\ ~DeclineLoud(rows, BoundariesOf(i).dip_start, BoundariesOf(i).dip_end)
                /\ VolumeScoreOf(rows, i) = 2
    IN  ~df.isNone /\ Seen(SortedRows)
VolumeScoreCapped ==
    LET Seen(rows) ==
            \E i \in ReturnedBy(GOLDEN) :
                /\ DeclineLoud(rows, BoundariesOf(i).dip_start, BoundariesOf(i).dip_end)
                /\ BaseAndReboundPoints(rows, BoundariesOf(i)) = 10
                /\ VolumeScoreOf(rows, i) = 10
    IN  ~df.isNone /\ Seen(SortedRows)

---------------------------------------------------------------------------
(* The base span runs out *)
\* the candidates of call c whose base search met neither rule within its span
SpanExhaustedIn(rows, c) ==
    {s \in BasedIn(rows, c) :
        VolumeStops(rows, BaseStart(c, s)) \cup BreakoutStops(rows, BaseStart(c, s), 4) = {}}

\* the number of bars after bar b
BarsAfter(rows, b) == Len0(rows) - 1 - b

\* C26 as stated: when neither base termination rule fires within the 20-bar base span and
\* more than 3 bars follow the base start, the base-end search returns min(base_start + 20,
\* n-1); otherwise it returns no boundary and the candidate is discarded
C26_MoreThanThreeBarsFollow ==
    LET Holds(rows) ==
            \A c \in 1..Len(calls) :
                \A s \in SpanExhaustedIn(rows, c) :
                    IF BarsAfter(rows, BaseStart(c, s)) > 3
                    THEN LocatedAt(c, s).bottom_end = MinI(BaseStart(c, s) + 20, Len0(rows) - 1)
                    ELSE LocatedAt(c, s).bottom_end = NoIdx /\ ~LocatedAt(c, s).found
    IN  df.isNone \/ Holds(SortedRows)

\* C26 with the test the code makes: when neither rule fires within the span and at least 3
\* bars follow the base start (base_start + 3 < n), the base-end search returns
\* min(base_start + 20, n-1); with fewer it returns no boundary and the candidate is discarded
C26_AtLeastThreeBarsFollow ==
    LET Holds(rows) ==
            \A c \in 1..Len(calls) :
                \A s \in SpanExhaustedIn(rows, c) :
                    IF BarsAfter(rows, BaseStart(c, s)) >= 3
                    THEN LocatedAt(c, s).bottom_end = MinI(BaseStart(c, s) + 20, Len0(rows) - 1)
                    ELSE LocatedAt(c, s).bottom_end = NoIdx /\ ~LocatedAt(c, s).found
    IN  df.isNone \/ Holds(SortedRows)

\* a base that starts with exactly 3 bars after it ran to the last bar without either rule
\* firing, and the candidate became the result returned
C26_Witness ==
    LET Seen(rows) ==
            \E c \in ReturnedBy(GOLDEN) :
                \E s \in SpanExhaustedIn(rows, c) :
                    /\ BarsAfter(rows, BaseStart(c, s)) = 3
                    /\ LocatedAt(c, s).bottom_end = Len0(rows) - 1
                    /\ LocatedAt(c, s).found
                    /\ BoundariesOf(c).dip_start = s
    IN  ~df.isNone /\ Seen(SortedRows)

\* a base span of 20 bars ran out before the end of the series, and a base with fewer than 3
\* bars after its start gave no boundary
SpanEndBeforeLastBar ==
    LET Seen(rows) ==
            \E c \in CallsOf(GOLDEN) :
                \E s \in SpanExhaustedIn(rows, c) :
                    /\ LocatedAt(c, s).bottom_end = BaseStart(c, s) + 20
                    /\ LocatedAt(c, s).bottom_end < Len0(rows) - 1
    IN  ~df.isNone /\ Seen(SortedRows)
TooFewBarsForBase ==
    LET Seen(rows) ==
            \E c \in CallsOf(GOLDEN) :
                \E s \in SpanExhaustedIn(rows, c) :
                    /\ BarsAfter(rows, BaseStart(c, s)) < 3
                    /\ LocatedAt(c, s).bottom_end = NoIdx
    IN  ~df.isNone /\ Seen(SortedRows)

---------------------------------------------------------------------------
(* A base span that runs out before the end of the series *)
\* the objects call c built
BuiltIn(c) == {calls[c].patterns[k] : k \in DOMAIN calls[c].patterns}

\* the bars at which one of the two rules ends the base that starts at b
RuleStops(rows, b) == VolumeStops(rows, b) \cup BreakoutStops(rows, b, 4)

\* C27: a base end obtained by span exhaustion at base_start + 20 gives a base duration
\* bottom_end - dip_end of 21, which the validator rejects; in every PatternResult built the
\* base end is the last bar of the series or a bar at which a base termination rule fired
C27_NoResultFromExhaustedSpan ==
    LET Holds(rows) ==
            \A c \in 1..Len(calls) :
                /\ \A s \in SpanExhaustedIn(rows, c) :
                       LocatedAt(c, s).bottom_end = BaseStart(c, s) + 20 =>
                           /\ LocatedAt(c, s).bottom_end - LocatedAt(c, s).dip_end = 21
                           /\ ~LocatedAt(c, s).found
                           /\ BuiltFor(c, s) = {}
                /\ \A ref \in BuiltIn(c) :
                       \/ origin[ref].bottom_end = Len0(rows) - 1
                       \/ origin[ref].bottom_end \in RuleStops(rows, origin[ref].dip_end + 1)
    IN  df.isNone \/ Holds(SortedRows)

\* a base span of 20 bars ran out before the last bar for a candidate whose decline the
\* validator accepts and whose rebound was found, and the candidate was dropped
C27_Witness ==
    LET Seen(rows) ==
            \E c \in CallsOf(GOLDEN) :
                \E s \in SpanExhaustedIn(rows, c) :
                    /\ LocatedAt(c, s).bottom_end = BaseStart(c, s) + 20
                    /\ LocatedAt(c, s).bottom_end < Len0(rows) - 1
                    /\ LocatedAt(c, s).rebound_found # NoIdx
                    /\ DeclineAndBaseAccepted(rows, s, LocatedAt(c, s).dip_end,
                                              LocatedAt(c, s).bottom_end - 1)
                    /\ ~LocatedAt(c, s).found
    IN  ~df.isNone /\ Seen(SortedRows)

\* a result whose base end is the last bar, reached by a span cut short by the end of the
\* series
ResultFromTruncatedSpan ==
    LET Seen(rows) ==
            \E c \in ReturnedBy(GOLDEN) :
                /\ BoundariesOf(c).bottom_end = Len0(rows) - 1
                /\ BoundariesOf(c).bottom_end \notin RuleStops(rows, BoundariesOf(c).dip_end + 1)
    IN  ~df.isNone /\ Seen(SortedRows)

---------------------------------------------------------------------------
(* Bars that close within their range *)
\* bar i closes more than 2% above the highest high of the bars b .. i-1 before it
ClosesAboveEarlierBars(rows, b, i) == 100 * Close(rows, i) > 102 * MaxHigh(rows, b, i)

\* C28: on a series whose bars all have close <= high, no scanned bar of a base closes more
\* than 2% above the envelope high, which includes the bar's own high, and the base-end search
\* ends only by the volume rule or by running out of its span
C28_NoBreakoutWithinRange ==
    LET Holds(rows) ==
            \A c \in 1..Len(calls) :
                \A s \in BasedIn(rows, c) :
                    /\ BreakoutStops(rows, BaseStart(c, s), 0) = {}
                    /\ LocatedAt(c, s).bottom_end =
                           IF VolumeStops(rows, BaseStart(c, s)) # {}
                           THEN FirstOf(VolumeStops(rows, BaseStart(c, s)))
                           ELSE IF BarsAfter(rows, BaseStart(c, s)) >= 3
                           THEN MinI(BaseStart(c, s) + 20, Len0(rows) - 1)
                           ELSE NoIdx
    IN  df.isNone \/ (HighsCoverCloses(SortedRows) => Holds(SortedRows))

\* on such a series a base search went past a bar, more than 3 bars after the base start, that
\* closes more than 2% above every high of the base before it
C28_Witness ==
    LET Seen(rows) ==
            \E c \in CallsOf(GOLDEN) :
                \E s \in BasedIn(rows, c) :
                    \E i \in BaseSpan(rows, BaseStart(c, s)) :
                        /\ i > BaseStart(c, s) + 3
                        /\ ClosesAboveEarlierBars(rows, BaseStart(c, s), i)
                        /\ LocatedAt(c, s).bottom_end > i
    IN  ~df.isNone /\ HighsCoverCloses(SortedRows) /\ Seen(SortedRows)

---------------------------------------------------------------------------
(* The stage of a result *)
\* C29: the current_stage of every returned result is BOTTOMING, REBOUNDING or BREAKOUT; a
\* candidate starts at least 10 bars before the last bar, and a candidate whose decline ends
\* on the last bar has no base and is discarded; current_stage is BOTTOMING exactly when the
\* base end is the last bar, and then rebound_start_date is None and rebound_duration is 0
C29_StageOfResult ==
    LET Holds(rows) ==
            /\ \A c \in 1..Len(calls) :
                   \A s \in HandedIn(rows, c) :
                       /\ s + 10 <= Len0(rows) - 1
                       /\ LocatedAt(c, s).dip_end = Len0(rows) - 1 =>
                              LocatedAt(c, s).bottom_end = NoIdx /\ ~LocatedAt(c, s).found
            /\ \A i \in Returned :
                   /\ calls[i].val.current_stage \in {"BOTTOMING", "REBOUNDING", "BREAKOUT"}
                   /\ (calls[i].val.current_stage = "BOTTOMING") =
                          (BoundariesOf(i).bottom_end = Len0(rows) - 1)
                   /\ calls[i].val.current_stage = "BOTTOMING" =>
                          /\ calls[i].val.rebound_start_date = None
                          /\ calls[i].val.rebound_duration = 0
    IN  df.isNone \/ Holds(SortedRows)

\* a returned result in stage BOTTOMING, its base end on the last bar, without a rebound
C29_Witness ==
    LET Seen(rows) ==
            \E i \in ReturnedBy(GOLDEN) :
                /\ calls[i].val.current_stage = "BOTTOMING"
                /\ BoundariesOf(i).bottom_end = Len0(rows) - 1
                /\ calls[i].val.rebound_start_date = None
                /\ calls[i].val.rebound_duration = 0
    IN  ~df.isNone /\ Seen(SortedRows)

\* a candidate whose decline ends on the last bar was discarded, and results in the two other
\* stages were returned
DeclineEndsOnLastBar ==
    LET Seen(rows) ==
            \E c \in CallsOf(GOLDEN) :
                \E s \in HandedIn(rows, c) :
                    LocatedAt(c, s).dip_end = Len0(rows) - 1 /\ ~LocatedAt(c, s).found
    IN  ~df.isNone /\ Seen(SortedRows)
StageRebounding == \E i \in ReturnedBy(GOLDEN) : calls[i].val.current_stage = "REBOUNDING"
StageBreakout == \E i \in ReturnedBy(GOLDEN) : calls[i].val.current_stage = "BREAKOUT"

---------------------------------------------------------------------------
(* The key dates of a result *)
\* the dates of the sorted series increase strictly
DatesIncrease(rows) == \A k \in 1..(Len0(rows) - 1) : Date(rows, k - 1) < Date(rows, k)

\* the bar with date d
BarOf(rows, d) == CHOOSE k \in 0..(Len0(rows) - 1) : Date(rows, k) = d

IsDateOf(rows, d) == \E k \in 0..(Len0(rows) - 1) : Date(rows, k) = d

\* C30: for an input with strictly increasing distinct dates, the key dates of every returned
\* result are dates of bars of the input, start_date is the date exactly 20 bars before the
\* decline start, start_date < dip_start_date < bottom_start_date < rebound_start_date <
\* breakout_date for those of the last two that are present, and rebound_start_date is at
\* least 3 bars after bottom_start_date
C30_KeyDatesOrdered ==
    LET Ordered(rows, v) ==
            /\ IsDateOf(rows, v.start_date) /\ IsDateOf(rows, v.dip_start_date)
            /\ IsDateOf(rows, v.bottom_start_date)
            /\ BarOf(rows, v.start_date) + 20 = BarOf(rows, v.dip_start_date)
            /\ v.start_date < v.dip_start_date
            /\ v.dip_start_date < v.bottom_start_date
            /\ v.rebound_start_date # None =>
                   /\ IsDateOf(rows, v.rebound_start_date)
                   /\ v.bottom_start_date < v.rebound_start_date
                   /\ BarOf(rows, v.rebound_start_date) >= BarOf(rows, v.bottom_start_date) + 3
            /\ v.breakout_date # None =>
                   /\ IsDateOf(rows, v.breakout_date)
                   /\ v.bottom_start_date < v.breakout_date
                   /\ v.rebound_start_date # None => v.rebound_start_date < v.breakout_date
        Holds(rows) == \A i \in Returned : Ordered(rows, calls[i].val)
    IN  df.isNone \/ (DatesIncrease(SortedRows) => Holds(SortedRows))

\* a returned result with all five dates, whose rebound starts exactly 3 bars after its base
C30_Witness ==
    LET Seen(rows) ==
            \E i \in ReturnedBy(GOLDEN) :
                /\ calls[i].val.rebound_start_date # None
                /\ calls[i].val.breakout_date # None
                /\ BarOf(rows, calls[i].val.rebound_start_date)
                       = BarOf(rows, calls[i].val.bottom_start_date) + 3
                /\ calls[i].val.rebound_start_date < calls[i].val.breakout_date
    IN  ~df.isNone /\ DatesIncrease(SortedRows) /\ Seen(SortedRows)

=============================================================================
